---- MODULE Spec2Model ----
(***************************************************************************)
(* Job queue of Avik-creator/jobqueue-go-implementation:                   *)
(*   queue/queue.go   JobQueue: three pending lanes and three dead-letter  *)
(*                    lanes behind one mutex                               *)
(*   utils/utils.go   RemoveJob                                            *)
(*   worker/worker.go Worker.Start: dequeue, handle, retry with backoff,   *)
(*                    dead-letter                                          *)
(*   scheduler        (listed in README.md, lines 279-358) heap + poller   *)
(***************************************************************************)
EXTENDS Integers, Sequences, FiniteSets, TLC

VARIABLES
    queue,            \* JobQueue.queue            : Priority -> sequence of Job
    deadLetterQueue,  \* JobQueue.deadLetterQueue  : Priority -> sequence of Job
    last,             \* the last store call: its name, argument, results and the lanes before it
    mode,             \* fill-then-drain run: "pending" (AddJob/GetJob) or "dead" (Move/GetDeadLetterJob)
    phase,            \* fill-then-drain run: "fill", "drain", "done"
    log,              \* fill-then-drain run: the jobs passed in, in call order
    out,              \* fill-then-drain run: the jobs returned, in call order
    mu,               \* JobQueue.mu: the goroutine holding it, or Free
    cphase,           \* concurrent run: "add", "remove", "done" (the two wg.Wait of the test)
    cpc,              \* concurrent run: each goroutine's position
    ci,               \* concurrent run: each goroutine's loop index j
    cbuf,             \* concurrent run: the lane a goroutine read inside its call
    heap,             \* Scheduler.heap: sequence of ScheduleJob (position 1 is h[0])
    now,              \* time.Now(), in units of 500 ms
    pollAt,           \* the time the poller's time.Sleep returns
    wpc,              \* each worker's position in the loop of Start
    wj,               \* each worker's local j
    wwake,            \* the time each worker's time.Sleep (its own or handleJob's) returns
    timers,           \* the retry goroutines asleep: [job, due]
    used,             \* IDs of the jobs producers have passed in
    handled,          \* per job ID: calls of handleJob so far
    sched,            \* per job ID: the Scheduler call (at, delay), the time of its promotion and how often (n)
    rt,               \* one job's retry path: position, RetryCount, MaxRetries, the delay computed
    sl,               \* the lanes as Go slices: per lane the backing array, offset and length; n counts the calls
    snap,             \* the slices GetAllJobs and GetAllDeadLetterJobs last returned
    cli,              \* the enqueue commands run so far: flags and the ID given to the job
    lk,               \* lock-level run: holder of Scheduler.mu, each task's position and argument, jobs made,
                      \* the poller's next.Job, each worker's j, the retry goroutines asleep
    hp                \* heap run: the last heap operation, the heap before it, the entry it took, Scheduler calls so far

storeVars == <<queue, deadLetterQueue>>
drainVars == <<mode, phase, log, out>>
concVars == <<mu, cphase, cpc, ci, cbuf>>
schedVars == <<heap, pollAt>>
workerVars == <<wpc, wj, wwake, timers>>
histVars == <<used, handled, sched>>
sysVars == <<schedVars, workerVars, histVars, now>>
vars == <<queue, deadLetterQueue, last, mode, phase, log, out, mu, cphase, cpc, ci, cbuf,
          heap, now, pollAt, wpc, wj, wwake, timers, used, handled, sched, rt, sl, snap, cli, lk, hp>>

\* What each specification leaves alone.
snapVars == <<sl, snap>>
auxVars == <<rt, snapVars, cli, lk, hp>>
idleInStore == <<drainVars, concVars, sysVars, auxVars>>
idleInDrain == <<last, concVars, sysVars, auxVars>>
idleInConc == <<last, drainVars, sysVars, auxVars>>
idleInSys == <<last, drainVars, concVars, auxVars>>
idleInRetry == <<storeVars, last, drainVars, concVars, sysVars, snapVars, cli, lk, hp>>
idleInSnap == <<last, drainVars, concVars, sysVars, rt, cli, lk, hp>>
idleInCli == <<last, drainVars, concVars, workerVars, histVars, rt, snapVars, lk, hp>>
idleInLock == <<last, drainVars, cphase, cpc, ci, cbuf, workerVars, histVars,
                rt, snapVars, cli, hp>>
idleInHeap == <<deadLetterQueue, last, drainVars, concVars, workerVars, histVars,
                rt, snapVars, cli, lk>>

\* The unlocked sync.Mutex: no holder.
Free == 0

IdleDrain == mode = "none" /\ phase = "none" /\ log = << >> /\ out = << >>
IdleConc == mu = Free /\ cphase = "none" /\ cpc = << >> /\ ci = << >> /\ cbuf = << >>
IdleSys ==
    /\ heap = << >> /\ now = 0 /\ pollAt = 0
    /\ wpc = << >> /\ wj = << >> /\ wwake = << >> /\ timers = {}
    /\ used = {} /\ handled = << >> /\ sched = << >>
IdleRetry == rt = << >>
IdleSnap == sl = << >> /\ snap = << >>
IdleCli == cli = << >>
IdleLock == lk = << >>
IdleHeap == hp = << >>
IdleAux == IdleRetry /\ IdleSnap /\ IdleCli /\ IdleLock /\ IdleHeap

\* ------------------------------------------------------------- utils/constants.go

High == 1
Medium == 2
Low == 3

Priorities == {High, Medium, Low}

\* Payload["to"]: the address handleJob fails on, and any other address.
ErrorAddr == "error@error.com"
OkAddr == "user@example.com"

\* utils.Job (Type and CreatedAt are never read by queue, worker or scheduler).
Job(id, prio, retry, max, to) ==
    [ID |-> id, Priority |-> prio, RetryCount |-> retry, MaxRetries |-> max, Payload |-> to]

\* The zero value utils.Job{} that GetJob returns beside its error.
NoJob == [ID |-> "", Priority |-> 0, RetryCount |-> 0, MaxRetries |-> 0, Payload |-> ""]

\* ------------------------------------------------------------- bounds

\* Jobs held by the store at once in SpecStore (pending and dead-letter together).
MaxStored == 3
\* Calls of the fill phase of a fill-then-drain run (SpecDrain).
MaxFill == 4
\* Goroutines of the concurrent run and jobs per goroutine (SpecConc);
\* the test runs 10 goroutines of 100 jobs.
NumGoroutines == 2
JobsPerGoroutine == 2
\* The whole system (Spec): the clock's last instant, workers started, jobs
\* passed in, the last instant a producer passes one in, the largest
\* MaxRetries and the largest delay (in 500 ms) of a job.
MaxTime == 7
NumWorkers == 2
MaxJobs == 2
MaxSubmitTime == 1
MaxMaxRetries == 1
MaxDelay == 1
MaxRetryCount == 64
MaxSnapStored == 3
MaxSnapOps == 5
MaxCliCommands == 2
MaxCliRetries == 1
MaxCliDelay == 1
MaxCliTime == 4
MaxLockJobs == 2
MaxLockDelay == 1
MaxLockTime == 1

\* ------------------------------------------------------------- utils/utils.go

RECURSIVE FirstIndexOf(_, _, _)
\* the loop of RemoveJob: the first i >= from with jobs[i].ID = id, 0 when none
FirstIndexOf(jobs, id, from) ==
    IF from > Len(jobs) THEN 0
    ELSE IF jobs[from].ID = id THEN from
    ELSE FirstIndexOf(jobs, id, from + 1)

\* A removal that drops the last entry when no entry has the ID.
RemoveJobOrLast(jobs, job) ==
    LET i == FirstIndexOf(jobs, job.ID, 1)
    IN  IF i = 0 THEN SubSeq(jobs, 1, Len(jobs) - 1)
        ELSE SubSeq(jobs, 1, i - 1) \o SubSeq(jobs, i + 1, Len(jobs))

\* A removal that takes every entry with the ID instead of the first.
RemoveJobAll(jobs, job) == SelectSeq(jobs, LAMBDA j : j.ID # job.ID)

RECURSIVE LastIndexOf(_, _, _)
\* the last i <= from with jobs[i].ID = id, 0 when none
LastIndexOf(jobs, id, from) ==
    IF from = 0 THEN 0
    ELSE IF jobs[from].ID = id THEN from
    ELSE LastIndexOf(jobs, id, from - 1)

\* A removal that scans from the tail: it takes the last entry with the ID.
RemoveJobLastMatch(jobs, job) ==
    LET i == LastIndexOf(jobs, job.ID, Len(jobs))
    IN  IF i = 0 THEN jobs
        ELSE SubSeq(jobs, 1, i - 1) \o SubSeq(jobs, i + 1, Len(jobs))

\* RemoveJob(jobs, job): append(jobs[:i], jobs[i+1:]...) at the first match.
RemoveJob(jobs, job) ==
    LET i == FirstIndexOf(jobs, job.ID, 1)
    IN  IF i = 0 THEN jobs
        ELSE SubSeq(jobs, 1, i - 1) \o SubSeq(jobs, i + 1, Len(jobs))

\* ------------------------------------------------------------- queue/queue.go

\* NewQueue: six empty lanes.
NewQueue == [p \in Priorities |-> << >>]

\* An enqueue whose switch has no case for Medium.
AddJobNoMedium(q, job) ==
    CASE job.Priority = High -> [q EXCEPT ![High] = Append(q[High], job)]
      [] job.Priority = Low  -> [q EXCEPT ![Low] = Append(q[Low], job)]
      [] OTHER -> q

\* The body of AddJob: the lanes after the switch on job.Priority.
AddJobLanes(q, job) ==
    CASE job.Priority = High   -> [q EXCEPT ![High]   = Append(q[High], job)]
      [] job.Priority = Medium -> [q EXCEPT ![Medium] = Append(q[Medium], job)]
      [] job.Priority = Low    -> [q EXCEPT ![Low]    = Append(q[Low], job)]
      [] OTHER -> q

\* A dequeue that looks at the Medium lane before the High lane.
PopLanesMediumFirst(q) ==
    IF Len(q[Medium]) > 0
    THEN [job |-> q[Medium][1], err |-> FALSE, lanes |-> [q EXCEPT ![Medium] = Tail(q[Medium])]]
    ELSE IF Len(q[High]) > 0
    THEN [job |-> q[High][1], err |-> FALSE, lanes |-> [q EXCEPT ![High] = Tail(q[High])]]
    ELSE IF Len(q[Low]) > 0
    THEN [job |-> q[Low][1], err |-> FALSE, lanes |-> [q EXCEPT ![Low] = Tail(q[Low])]]
    ELSE [job |-> NoJob, err |-> TRUE, lanes |-> q]

\* A dequeue that serves the lanes round the other way: Low, Medium, High.
PopLanesLowFirst(q) ==
    IF Len(q[Low]) > 0
    THEN [job |-> q[Low][1], err |-> FALSE, lanes |-> [q EXCEPT ![Low] = Tail(q[Low])]]
    ELSE IF Len(q[Medium]) > 0
    THEN [job |-> q[Medium][1], err |-> FALSE, lanes |-> [q EXCEPT ![Medium] = Tail(q[Medium])]]
    ELSE IF Len(q[High]) > 0
    THEN [job |-> q[High][1], err |-> FALSE, lanes |-> [q EXCEPT ![High] = Tail(q[High])]]
    ELSE [job |-> NoJob, err |-> TRUE, lanes |-> q]

\* A dequeue that reports "no job found" without looking at the Low lane.
PopLanesNoLow(q) ==
    IF Len(q[High]) > 0
    THEN [job |-> q[High][1], err |-> FALSE, lanes |-> [q EXCEPT ![High] = Tail(q[High])]]
    ELSE IF Len(q[Medium]) > 0
    THEN [job |-> q[Medium][1], err |-> FALSE, lanes |-> [q EXCEPT ![Medium] = Tail(q[Medium])]]
    ELSE [job |-> NoJob, err |-> TRUE, lanes |-> q]

\* The body shared by GetJob and GetDeadLetterJob: the three ifs over one map
\* of lanes; err stands for errors.New("no job found").
PopLanes(q) ==
    IF Len(q[High]) > 0
    THEN [job |-> q[High][1], err |-> FALSE, lanes |-> [q EXCEPT ![High] = Tail(q[High])]]
    ELSE IF Len(q[Medium]) > 0
    THEN [job |-> q[Medium][1], err |-> FALSE, lanes |-> [q EXCEPT ![Medium] = Tail(q[Medium])]]
    ELSE IF Len(q[Low]) > 0
    THEN [job |-> q[Low][1], err |-> FALSE, lanes |-> [q EXCEPT ![Low] = Tail(q[Low])]]
    ELSE [job |-> NoJob, err |-> TRUE, lanes |-> q]

\* The body of RemoveJobFromQueue.
RemoveLanes(q, job) ==
    CASE job.Priority = High   -> [q EXCEPT ![High]   = RemoveJob(q[High], job)]
      [] job.Priority = Medium -> [q EXCEPT ![Medium] = RemoveJob(q[Medium], job)]
      [] job.Priority = Low    -> [q EXCEPT ![Low]    = RemoveJob(q[Low], job)]
      [] OTHER -> q

\* A move that appends to the dead-letter lane only when the job was pending.
MoveLanesIfPending(q, d, job) ==
    [queue |-> RemoveLanes(q, job),
     dead  |-> IF job.Priority \in Priorities
                  /\ FirstIndexOf(q[job.Priority], job.ID, 1) # 0
               THEN AddJobLanes(d, job) ELSE d]

\* A move that puts the job at the head of the dead-letter lane.
MoveLanesAtHead(q, d, job) ==
    [queue |-> RemoveLanes(q, job),
     dead  |-> IF job.Priority \in Priorities
               THEN [d EXCEPT ![job.Priority] = <<job>> \o d[job.Priority]] ELSE d]

\* A move that leaves the job alone in its dead-letter lane: what the lane
\* held before is gone.
MoveLanesOverwrite(q, d, job) ==
    [queue |-> RemoveLanes(q, job),
     dead  |-> IF job.Priority \in Priorities
               THEN [d EXCEPT ![job.Priority] = <<job>>] ELSE d]

\* The body of MoveJobToDeadLetterQueue: per case, RemoveJob on the pending
\* lane and append on the dead-letter lane of the same priority.
MoveLanes(q, d, job) ==
    [queue |-> RemoveLanes(q, job), dead |-> AddJobLanes(d, job)]

\* ------------------------------------------------------------- the store's API, call by call

\* Jobs a caller of the store passes in: two IDs in every priority.
StoreIDs == {"a", "b"}
StoreJobs == {Job(id, p, 0, 0, OkAddr) : id \in StoreIDs, p \in Priorities}
\* The same jobs as a retry goroutine passes them in again: RetryCount 1.
StoreRetried == {Job(id, p, 1, 1, OkAddr) : id \in StoreIDs, p \in Priorities}

\* The jobs of the runs on slices: two IDs, two priorities.
SnapJobs == {Job(id, p, 0, 0, OkAddr) : id \in StoreIDs, p \in {High, Low}}

RECURSIVE SumLen(_, _)
SumLen(q, ps) ==
    IF ps = {} THEN 0
    ELSE LET p == CHOOSE x \in ps : TRUE IN Len(q[p]) + SumLen(q, ps \ {p})

Stored == SumLen(queue, Priorities) + SumLen(deadLetterQueue, Priorities)

Call(op, job, ret, err) ==
    [op |-> op, job |-> job, ret |-> ret, err |-> err, q |-> queue, d |-> deadLetterQueue]

InitStore ==
    /\ queue = NewQueue
    /\ deadLetterQueue = NewQueue
    /\ last = [op |-> "NewQueue", job |-> NoJob, ret |-> NoJob, err |-> FALSE,
               q |-> NewQueue, d |-> NewQueue]
    /\ IdleDrain
    /\ IdleConc
    /\ IdleSys
    /\ IdleAux

AddJob(job) ==
    /\ Stored < MaxStored
    /\ queue' = AddJobLanes(queue, job)
    /\ UNCHANGED deadLetterQueue
    /\ last' = Call("AddJob", job, NoJob, FALSE)
    /\ UNCHANGED idleInStore

GetJob ==
    LET r == PopLanes(queue)
    IN  /\ queue' = r.lanes
        /\ UNCHANGED deadLetterQueue
        /\ last' = Call("GetJob", NoJob, r.job, r.err)
        /\ UNCHANGED idleInStore

RemoveJobFromQueue(job) ==
    /\ queue' = RemoveLanes(queue, job)
    /\ UNCHANGED deadLetterQueue
    /\ last' = Call("RemoveJobFromQueue", job, NoJob, FALSE)
    /\ UNCHANGED idleInStore

MoveJobToDeadLetterQueue(job) ==
    LET r == MoveLanes(queue, deadLetterQueue, job)
    IN  /\ Stored < MaxStored \/ FirstIndexOf(queue[job.Priority], job.ID, 1) # 0
        /\ queue' = r.queue
        /\ deadLetterQueue' = r.dead
        /\ last' = Call("MoveJobToDeadLetterQueue", job, NoJob, FALSE)
        /\ UNCHANGED idleInStore

GetDeadLetterJob ==
    LET r == PopLanes(deadLetterQueue)
    IN  /\ deadLetterQueue' = r.lanes
        /\ UNCHANGED queue
        /\ last' = Call("GetDeadLetterJob", NoJob, r.job, r.err)
        /\ UNCHANGED idleInStore

NextStore ==
    \/ \E job \in StoreJobs \cup StoreRetried : AddJob(job)
    \/ GetJob
    \/ \E job \in StoreJobs : RemoveJobFromQueue(job)
    \/ \E job \in StoreJobs : MoveJobToDeadLetterQueue(job)
    \/ GetDeadLetterJob

SpecStore == InitStore /\ [][NextStore]_vars

\* ------------------------------------------------------------- fill, then drain until "no job found"

IdleLast == [op |-> "none", job |-> NoJob, ret |-> NoJob, err |-> FALSE,
             q |-> NewQueue, d |-> NewQueue]

InitDrain ==
    /\ queue = NewQueue
    /\ deadLetterQueue = NewQueue
    /\ last = IdleLast
    /\ mode \in {"pending", "dead"}
    /\ phase = "fill"
    /\ log = << >>
    /\ out = << >>
    /\ IdleConc
    /\ IdleSys
    /\ IdleAux

\* q.AddJob(job) of the fill phase.
FillAddJob(job) ==
    /\ phase = "fill"
    /\ mode = "pending"
    /\ Len(log) < MaxFill
    /\ queue' = AddJobLanes(queue, job)
    /\ log' = Append(log, job)
    /\ UNCHANGED <<deadLetterQueue, mode, phase, out, idleInDrain>>

\* q.MoveJobToDeadLetterQueue(job) of the fill phase.
FillMove(job) ==
    LET r == MoveLanes(queue, deadLetterQueue, job)
    IN  /\ phase = "fill"
        /\ mode = "dead"
        /\ Len(log) < MaxFill
        /\ queue' = r.queue
        /\ deadLetterQueue' = r.dead
        /\ log' = Append(log, job)
        /\ UNCHANGED <<mode, phase, out, idleInDrain>>

StartDrain ==
    /\ phase = "fill"
    /\ phase' = "drain"
    /\ UNCHANGED <<storeVars, mode, log, out, idleInDrain>>

\* q.GetJob() of the drain phase; the run ends at "no job found".
DrainGetJob ==
    LET r == PopLanes(queue)
    IN  /\ phase = "drain"
        /\ mode = "pending"
        /\ queue' = r.lanes
        /\ out' = IF r.err THEN out ELSE Append(out, r.job)
        /\ phase' = IF r.err THEN "done" ELSE "drain"
        /\ UNCHANGED <<deadLetterQueue, mode, log, idleInDrain>>

\* q.GetDeadLetterJob() of the drain phase.
DrainGetDeadLetterJob ==
    LET r == PopLanes(deadLetterQueue)
    IN  /\ phase = "drain"
        /\ mode = "dead"
        /\ deadLetterQueue' = r.lanes
        /\ out' = IF r.err THEN out ELSE Append(out, r.job)
        /\ phase' = IF r.err THEN "done" ELSE "drain"
        /\ UNCHANGED <<queue, mode, log, idleInDrain>>

NextDrain ==
    \/ \E job \in StoreJobs : FillAddJob(job)
    \/ \E job \in StoreJobs : FillMove(job)
    \/ StartDrain
    \/ DrainGetJob
    \/ DrainGetDeadLetterJob

SpecDrain == InitDrain /\ [][NextDrain]_vars

\* ------------------------------------------------------------- concurrent producers, then concurrent removers

Goroutines == 1..NumGoroutines

\* The job goroutine id builds in iteration j: ID "job-<id>-<j>"; the
\* priorities rotate over the three lanes.
ConcJob(id, j) ==
    Job("job-" \o ToString(id) \o "-" \o ToString(j), ((id + j) % 3) + 1, 0, 0, OkAddr)

ConcJobs == {ConcJob(id, j) : id \in Goroutines, j \in 1..JobsPerGoroutine}

\* A Lock that does not wait for the holder.
LockNoWait(g) == TRUE

\* q.mu.Lock() returns to g only when no goroutine holds the mutex.
Lock(g) == mu = Free

InitConc ==
    /\ queue = NewQueue
    /\ deadLetterQueue = NewQueue
    /\ last = IdleLast
    /\ IdleDrain
    /\ mu = Free
    /\ cphase = "add"
    /\ cpc = [g \in Goroutines |-> "lock"]
    /\ ci = [g \in Goroutines |-> 1]
    /\ cbuf = [g \in Goroutines |-> << >>]
    /\ IdleSys
    /\ IdleAux

\* q.mu.Lock() at the top of AddJob and of RemoveJobFromQueue.
ConcLock(g) ==
    /\ cpc[g] = "lock"
    /\ Lock(g)
    /\ mu' = g
    /\ cpc' = [cpc EXCEPT ![g] = "read"]
    /\ UNCHANGED <<storeVars, cphase, ci, cbuf, idleInConc>>

\* The read of q.queue[job.Priority] in the statement under the lock.
ConcRead(g) ==
    /\ cpc[g] = "read"
    /\ cbuf' = [cbuf EXCEPT ![g] = queue[ConcJob(g, ci[g]).Priority]]
    /\ cpc' = [cpc EXCEPT ![g] = "write"]
    /\ UNCHANGED <<storeVars, mu, cphase, ci, idleInConc>>

\* The assignment to q.queue[job.Priority]: append in AddJob, utils.RemoveJob
\* in RemoveJobFromQueue, of the lane read.
ConcWrite(g) ==
    LET job == ConcJob(g, ci[g])
        seen == [queue EXCEPT ![job.Priority] = cbuf[g]]
    IN  /\ cpc[g] = "write"
        /\ queue' = IF cphase = "add" THEN AddJobLanes(seen, job) ELSE RemoveLanes(seen, job)
        /\ cpc' = [cpc EXCEPT ![g] = "unlock"]
        /\ UNCHANGED <<deadLetterQueue, mu, cphase, ci, cbuf, idleInConc>>

\* The deferred q.mu.Unlock(), then the next iteration or wg.Done().
ConcUnlock(g) ==
    /\ cpc[g] = "unlock"
    /\ mu' = Free
    /\ IF ci[g] < JobsPerGoroutine
       THEN ci' = [ci EXCEPT ![g] = ci[g] + 1] /\ cpc' = [cpc EXCEPT ![g] = "lock"]
       ELSE ci' = ci /\ cpc' = [cpc EXCEPT ![g] = "done"]
    /\ UNCHANGED <<storeVars, cphase, cbuf, idleInConc>>

\* wg.Wait() returns: after the adds the removers start, after the removes the test ends.
ConcWait ==
    /\ \A g \in Goroutines : cpc[g] = "done"
    /\ cphase \in {"add", "remove"}
    /\ IF cphase = "add"
       THEN /\ cphase' = "remove"
            /\ cpc' = [g \in Goroutines |-> "lock"]
            /\ ci' = [g \in Goroutines |-> 1]
       ELSE /\ cphase' = "done"
            /\ UNCHANGED <<cpc, ci>>
    /\ UNCHANGED <<storeVars, mu, cbuf, idleInConc>>

NextConc ==
    \/ \E g \in Goroutines : ConcLock(g)
    \/ \E g \in Goroutines : ConcRead(g)
    \/ \E g \in Goroutines : ConcWrite(g)
    \/ \E g \in Goroutines : ConcUnlock(g)
    \/ ConcWait

SpecConc == InitConc /\ [][NextConc]_vars

\* ------------------------------------------------------------- the lanes as Go slices

\* A []utils.Job value: the backing array it points into (arr, the whole
\* array), the offset of its first element in it, and its length. Its
\* capacity is Len(arr) - off.
Slice(arr, off, len) == [arr |-> arr, off |-> off, len |-> len]

\* make([]utils.Job, 0)
EmptySlice == Slice(<< >>, 0, 0)

\* The elements of a slice.
Contents(s) == SubSeq(s.arr, s.off + 1, s.off + s.len)

\* append(s, x): in place when the capacity allows, else into a new array of
\* twice the capacity (the runtime's growth for small slices), which the
\* older slices of the old array do not see. realloc tells which.
SliceAppend(s, x) ==
    IF s.off + s.len < Len(s.arr)
    THEN [s |-> Slice([s.arr EXCEPT ![s.off + s.len + 1] = x], s.off, s.len + 1), realloc |-> FALSE]
    ELSE LET cap == Len(s.arr) - s.off
             newcap == IF cap = 0 THEN 1 ELSE 2 * cap
         IN  [s |-> Slice(Contents(s) \o <<x>> \o [i \in 1..(newcap - s.len - 1) |-> NoJob], 0, s.len + 1),
              realloc |-> TRUE]

\* s[1:]
SliceTail(s) == Slice(s.arr, s.off + 1, s.len - 1)

\* utils.RemoveJob(s, job) on slices: append(jobs[:i], jobs[i+1:]...) copies
\* the elements after the first match one place down in the same array; the
\* cell of the former last element keeps its value.
SliceRemove(s, job) ==
    LET i == FirstIndexOf(Contents(s), job.ID, 1)
    IN  IF i = 0 THEN s
        ELSE Slice([k \in 1..Len(s.arr) |->
                        IF k >= s.off + i /\ k < s.off + s.len THEN s.arr[k + 1] ELSE s.arr[k]],
                   s.off, s.len - 1)

NewSlices == [p \in Priorities |-> EmptySlice]

\* What a caller holds after GetAllJobs or GetAllDeadLetterJobs: per lane the
\* slice returned (offset and length; shared: it still points into the array
\* the store uses, else frozen is its array), and at, the elements it had when
\* it was returned.
NoSnap ==
    [taken |-> FALSE,
     lanes |-> [p \in Priorities |-> [off |-> 0, len |-> 0, shared |-> FALSE, frozen |-> << >>]],
     at |-> NewQueue]

\* highJobs := q.queue[utils.High] ...; return highJobs, mediumJobs, lowJobs, nil
TakeSnap(lanes) ==
    [taken |-> TRUE,
     lanes |-> [p \in Priorities |->
                   [off |-> lanes[p].off, len |-> lanes[p].len, shared |-> TRUE, frozen |-> << >>]],
     at |-> [p \in Priorities |-> Contents(lanes[p])]]

\* The store's lane p moved to a new array: a returned slice of the old array
\* keeps the old array.
Detach(S, p, oldArr, realloc) ==
    IF S.taken /\ S.lanes[p].shared /\ realloc
    THEN [S EXCEPT !.lanes[p].shared = FALSE, !.lanes[p].frozen = oldArr]
    ELSE S

\* What the caller reads in the slices it holds, now.
View(S, lanes) ==
    [p \in Priorities |->
        LET L == S.lanes[p]
            arr == IF L.shared THEN lanes[p].arr ELSE L.frozen
        IN  SubSeq(arr, L.off + 1, L.off + L.len)]

InitSnap ==
    /\ queue = NewQueue
    /\ deadLetterQueue = NewQueue
    /\ last = IdleLast
    /\ IdleDrain
    /\ IdleConc
    /\ IdleSys
    /\ IdleRetry
    /\ IdleCli
    /\ IdleLock
    /\ IdleHeap
    /\ sl = [q |-> NewSlices, d |-> NewSlices, n |-> 0]
    /\ snap = [q |-> NoSnap, d |-> NoSnap]

SnapAddJob(job) ==
    LET p == job.Priority
        r == SliceAppend(sl.q[p], job)
    IN  /\ Stored < MaxSnapStored
        /\ sl.n < MaxSnapOps
        /\ sl' = [sl EXCEPT !.q[p] = r.s, !.n = @ + 1]
        /\ snap' = [snap EXCEPT !.q = Detach(@, p, sl.q[p].arr, r.realloc)]
        /\ queue' = AddJobLanes(queue, job)
        /\ UNCHANGED <<deadLetterQueue, idleInSnap>>

SnapGetJob ==
    /\ \E p \in Priorities :
          /\ sl.q[p].len > 0
          /\ \A r \in Priorities : r < p => sl.q[r].len = 0
          /\ sl.n < MaxSnapOps
          /\ sl' = [sl EXCEPT !.q[p] = SliceTail(@), !.n = @ + 1]
    /\ queue' = PopLanes(queue).lanes
    /\ UNCHANGED <<deadLetterQueue, snap, idleInSnap>>

SnapRemoveJobFromQueue(job) ==
    /\ sl.n < MaxSnapOps
    /\ sl' = [sl EXCEPT !.q[job.Priority] = SliceRemove(@, job), !.n = @ + 1]
    /\ queue' = RemoveLanes(queue, job)
    /\ UNCHANGED <<deadLetterQueue, snap, idleInSnap>>

SnapMoveJobToDeadLetterQueue(job) ==
    LET p == job.Priority
        r == SliceAppend(sl.d[p], job)
        m == MoveLanes(queue, deadLetterQueue, job)
    IN  /\ Stored < MaxSnapStored \/ FirstIndexOf(queue[p], job.ID, 1) # 0
        /\ sl.n < MaxSnapOps
        /\ sl' = [sl EXCEPT !.q[p] = SliceRemove(@, job), !.d[p] = r.s, !.n = @ + 1]
        /\ snap' = [snap EXCEPT !.d = Detach(@, p, sl.d[p].arr, r.realloc)]
        /\ queue' = m.queue
        /\ deadLetterQueue' = m.dead
        /\ UNCHANGED idleInSnap

SnapGetDeadLetterJob ==
    /\ \E p \in Priorities :
          /\ sl.d[p].len > 0
          /\ \A r \in Priorities : r < p => sl.d[r].len = 0
          /\ sl.n < MaxSnapOps
          /\ sl' = [sl EXCEPT !.d[p] = SliceTail(@), !.n = @ + 1]
    /\ deadLetterQueue' = PopLanes(deadLetterQueue).lanes
    /\ UNCHANGED <<queue, snap, idleInSnap>>

SnapGetAllJobs ==
    /\ snap' = [snap EXCEPT !.q = TakeSnap(sl.q)]
    /\ UNCHANGED <<storeVars, sl, idleInSnap>>

SnapGetAllDeadLetterJobs ==
    /\ snap' = [snap EXCEPT !.d = TakeSnap(sl.d)]
    /\ UNCHANGED <<storeVars, sl, idleInSnap>>

NextSnap ==
    \/ \E job \in SnapJobs : SnapAddJob(job)
    \/ SnapGetJob
    \/ \E job \in SnapJobs : SnapRemoveJobFromQueue(job)
    \/ \E job \in SnapJobs : SnapMoveJobToDeadLetterQueue(job)
    \/ SnapGetDeadLetterJob
    \/ SnapGetAllJobs
    \/ SnapGetAllDeadLetterJobs

SpecSnap == InitSnap /\ [][NextSnap]_vars

\* ------------------------------------------------------------- scheduler (README.md 279-358)

\* Durations in units of 500 ms.
Second == 2
PollInterval == 1
HandleTime == 1
\* A worker that does not sleep on "no job found".
NoSleep == 0 * Second

\* time.Sleep(1 * time.Second)
SleepTime == 1 * Second

\* A Less that compares the wrong way round: the latest entry comes to the root.
LessLater(h, i, j) == h[i + 1].ScheduleTime > h[j + 1].ScheduleTime

\* JobHeap.Less(i, j): h[i].ScheduleTime.Before(h[j].ScheduleTime); i, j count from 0.
Less(h, i, j) == h[i + 1].ScheduleTime < h[j + 1].ScheduleTime

\* JobHeap.Swap(i, j): the entries change places, then the entry now at i is
\* given index j and the entry now at j index i.
Swap(h, i, j) ==
    [h EXCEPT ![i + 1] = [h[j + 1] EXCEPT !.index = j],
              ![j + 1] = [h[i + 1] EXCEPT !.index = i]]

RECURSIVE up(_, _)
\* container/heap up(h, j), called by heap.Push.
up(h, j) ==
    LET i == IF j = 0 THEN 0 ELSE (j - 1) \div 2
    IN  IF i = j \/ ~Less(h, j, i) THEN h ELSE up(Swap(h, i, j), i)

RECURSIVE down(_, _, _)
\* container/heap down(h, i, n), called by heap.Pop.
down(h, i, n) ==
    LET j1 == 2 * i + 1
        j  == IF j1 + 1 < n /\ Less(h, j1 + 1, j1) THEN j1 + 1 ELSE j1
    IN  IF j1 >= n THEN h
        ELSE IF ~Less(h, j, i) THEN h
        ELSE down(Swap(h, i, j), j, n)

\* heap.Push(&s.heap, x): JobHeap.Push sets x.index and appends, then up.
HeapPush(h, x) == up(Append(h, [x EXCEPT !.index = Len(h)]), Len(h))

\* heap.Pop(&s.heap): Swap(0, n), down(0, n), then JobHeap.Pop takes the last entry off.
HeapPop(h) ==
    LET n == Len(h) - 1
    IN  SubSeq(down(Swap(h, 0, n), 0, n), 1, n)

\* A poller pass that promotes every entry that is due, not one.
RECURSIVE PollAll(_, _, _)
PollAll(h, q, t) ==
    IF Len(h) > 0 /\ t > h[1].ScheduleTime
    THEN PollAll(HeapPop(h), AddJobLanes(q, h[1].Job), t)
    ELSE [heap |-> h, queue |-> q]

\* A poller pass without the test of the time: the root is promoted, due or not.
PollNoWait(h, q, t) ==
    IF Len(h) > 0
    THEN [heap |-> HeapPop(h), queue |-> AddJobLanes(q, h[1].Job)]
    ELSE [heap |-> h, queue |-> q]

\* One pass of the poller's loop body at time t: when the heap is not empty and
\* time.Now().After(next.ScheduleTime), heap.Pop and s.queue.AddJob(next.Job).
Poll(h, q, t) ==
    IF Len(h) > 0 /\ t > h[1].ScheduleTime
    THEN [heap |-> HeapPop(h), queue |-> AddJobLanes(q, h[1].Job)]
    ELSE [heap |-> h, queue |-> q]

\* ------------------------------------------------------------- worker (worker/worker.go)

\* A handler that never fails.
handleJobNoError(j) == FALSE

\* A handler with its test the wrong way round: it fails on every other address.
handleJobInverted(j) == j.Payload # ErrorAddr

\* handleJob(j) returns an error: Payload["to"] is "error@error.com".
handleJob(j) == j.Payload = ErrorAddr

RECURSIVE Pow2(_)
Pow2(k) == IF k = 0 THEN 1 ELSE 2 * Pow2(k - 1)

\* delay := time.Duration(math.Pow(2, float64(j.RetryCount))) * time.Second
Backoff(retryCount) == Pow2(retryCount) * Second

\* A retry test that gives one attempt fewer: RetryCount < MaxRetries.
MayRetryStrict(j) == j.RetryCount < j.MaxRetries

\* j.RetryCount <= j.MaxRetries, read after j.RetryCount++.
MayRetry(j) == j.RetryCount <= j.MaxRetries

\* ------------------------------------------------------------- the retry delay at the width of time.Duration

\* time.Duration is an int64 of nanoseconds: here DurationBytes bytes, the
\* lowest first, in two's complement.
DurationBytes == 8

RECURSIVE FromNat(_, _)
\* The n lowest bytes of the natural number x.
FromNat(x, n) == IF n = 0 THEN << >> ELSE <<x % 256>> \o FromNat(x \div 256, n - 1)

\* 2^k in n bytes (0 when it does not fit).
TwoToThe(k, n) == [i \in 1..n |-> IF i = (k \div 8) + 1 THEN 2 ^ (k % 8) ELSE 0]

RECURSIVE Column(_, _, _, _)
\* The sum of the byte products a[j] * b[i - j + 1], j from j0 to i.
Column(a, b, i, j0) == IF j0 > i THEN 0 ELSE a[j0] * b[i - j0 + 1] + Column(a, b, i, j0 + 1)

RECURSIVE MulFrom(_, _, _, _, _)
MulFrom(a, b, n, i, carry) ==
    IF i > n THEN << >>
    ELSE LET c == carry + Column(a, b, i, 1)
         IN  <<c % 256>> \o MulFrom(a, b, n, i + 1, c \div 256)

\* a * b on n bytes: the product wraps, as Go's integer multiplication does.
Mul(a, b, n) == MulFrom(a, b, n, 1, 0)

Negative(a) == a[Len(a)] >= 128
IsZero(a) == \A i \in 1..Len(a) : a[i] = 0
Positive(a) == ~Negative(a) /\ ~IsZero(a)

RECURSIVE UnsignedLess(_, _, _)
\* a < b read as unsigned numbers, from byte i down.
UnsignedLess(a, b, i) ==
    IF i = 0 THEN FALSE
    ELSE IF a[i] # b[i] THEN a[i] < b[i]
    ELSE UnsignedLess(a, b, i - 1)

\* a < b as int64.
SignedLess(a, b) ==
    IF Negative(a) # Negative(b) THEN Negative(a) ELSE UnsignedLess(a, b, Len(a))

\* a widened to n bytes, keeping its sign.
SignExtend(a, n) ==
    [i \in 1..n |-> IF i <= Len(a) THEN a[i] ELSE IF Negative(a) THEN 255 ELSE 0]

MinInt64 == [i \in 1..DurationBytes |-> IF i = DurationBytes THEN 128 ELSE 0]
MaxInt64 == [i \in 1..DurationBytes |-> IF i = DurationBytes THEN 127 ELSE 255]

\* time.Second: 1e9 nanoseconds; and the model's time unit of 500 ms.
SecondNs == FromNat(1000000000, DurationBytes)
HalfSecondNs == FromNat(500000000, DurationBytes)

\* time.Duration(math.Pow(2, float64(k))): 2^k is exact as a float64; it
\* converts to itself while it fits an int64 (k <= 62), and past that Go leaves
\* the result to the implementation: the smallest int64 (amd64) or the
\* largest (arm64).
DurationOfPow2(k) ==
    IF k <= 8 * DurationBytes - 2 THEN {TwoToThe(k, DurationBytes)} ELSE {MinInt64, MaxInt64}

\* A delay of k seconds: linear, not exponential.
BackoffDurationsLinear(k) == {Mul(FromNat(k, DurationBytes), SecondNs, DurationBytes)}

\* delay := time.Duration(math.Pow(2, float64(j.RetryCount))) * time.Second,
\* with RetryCount = k: the values the delay can have.
BackoffDurations(k) == {Mul(d, SecondNs, DurationBytes) : d \in DurationOfPow2(k)}

\* One job on its retry path, created with any RetryCount and MaxRetries up
\* to MaxRetryCount, whose handler fails at every attempt.
InitRetry ==
    /\ queue = NewQueue
    /\ deadLetterQueue = NewQueue
    /\ last = IdleLast
    /\ IdleDrain
    /\ IdleConc
    /\ IdleSys
    /\ IdleSnap
    /\ IdleCli
    /\ IdleLock
    /\ IdleHeap
    /\ rt \in {[pc |-> "pending", RetryCount |-> k, MaxRetries |-> m, delay |-> FromNat(0, DurationBytes)] :
                  k \in 0..MaxRetryCount, m \in 0..MaxRetryCount}

\* handleJob fails: j.RetryCount++, then the delay is computed and the retry
\* goroutine started, or the job goes to the dead-letter queue.
RetryFail ==
    LET k == rt.RetryCount + 1
    IN  /\ rt.pc = "pending"
        /\ rt.RetryCount <= MaxRetryCount
        /\ IF k <= rt.MaxRetries
           THEN \E d \in BackoffDurations(k) :
                    rt' = [rt EXCEPT !.pc = "asleep", !.RetryCount = k, !.delay = d]
           ELSE rt' = [rt EXCEPT !.pc = "dead", !.RetryCount = k]
        /\ UNCHANGED idleInRetry

\* time.Sleep(delay) returns (at once when delay <= 0); w.Queue.AddJob(jobCopy).
RetryReenter ==
    /\ rt.pc = "asleep"
    /\ rt' = [rt EXCEPT !.pc = "pending"]
    /\ UNCHANGED idleInRetry

NextRetry == RetryFail \/ RetryReenter

SpecRetry == InitRetry /\ [][NextRetry]_vars

\* ------------------------------------------------------------- the enqueue command (main.go)

\* The values of --priority the README documents.
PriorityFlags == {"low", "medium", "high"}

\* priority := utils.Low; if c.String("priority") == "high" { priority = utils.High }
PriorityOfFlag(flag) == IF flag = "high" THEN High ELSE Low

\* uuid.New().String(): an ID no earlier job has.
NewID(n) == "job-" \o ToString(n)

\* One process: var q = queue.NewQueue(), var s = scheduler.NewScheduler(q),
\* which starts the poller; no worker is started by enqueue.
InitCli ==
    /\ queue = NewQueue
    /\ deadLetterQueue = NewQueue
    /\ last = IdleLast
    /\ IdleDrain
    /\ IdleConc
    /\ heap = << >> /\ now = 0 /\ pollAt = 0
    /\ wpc = << >> /\ wj = << >> /\ wwake = << >> /\ timers = {}
    /\ used = {} /\ handled = << >> /\ sched = << >>
    /\ IdleRetry
    /\ IdleSnap
    /\ IdleLock
    /\ IdleHeap
    /\ cli = << >>

\* The Action of enqueue with its four flags.
CliEnqueue(to, flag, retries, delay) ==
    LET j == Job(NewID(Len(cli) + 1), PriorityOfFlag(flag), 0, retries, to)
    IN  /\ Len(cli) < MaxCliCommands
        /\ cli' = Append(cli, [priority |-> flag, delay |-> delay, at |-> now, job |-> j])
        /\ IF delay > 0
           THEN /\ heap' = HeapPush(heap, [Job |-> j, ScheduleTime |-> now + delay * Second, index |-> 0])
                /\ UNCHANGED queue
           ELSE /\ queue' = AddJobLanes(queue, j)
                /\ UNCHANGED heap
        /\ UNCHANGED <<deadLetterQueue, pollAt, now, idleInCli>>

\* One pass of the poller's loop, then time.Sleep(500 * time.Millisecond).
CliPoller ==
    LET r == Poll(heap, queue, now)
    IN  /\ pollAt <= now
        /\ heap' = r.heap
        /\ queue' = r.queue
        /\ pollAt' = now + PollInterval
        /\ UNCHANGED <<deadLetterQueue, now, cli, idleInCli>>

\* Time passes while the poller sleeps.
CliTick ==
    /\ now < MaxCliTime
    /\ pollAt > now
    /\ now' = now + 1
    /\ UNCHANGED <<storeVars, schedVars, cli, idleInCli>>

NextCli ==
    \/ \E to \in {ErrorAddr, OkAddr}, flag \in PriorityFlags, retries \in 0..MaxCliRetries,
          delay \in 0..MaxCliDelay : CliEnqueue(to, flag, retries, delay)
    \/ CliPoller
    \/ CliTick

SpecCli == InitCli /\ [][NextCli]_vars

\* ------------------------------------------------------------- the two mutexes, lock by lock

\* The tasks of the lock-level run: the poller goroutine, a producer calling
\* Scheduler, a producer calling AddJob, two workers (each calls GetJob and
\* MoveJobToDeadLetterQueue) and a retry goroutine calling AddJob.
PollerTask == 1
SchedulerCaller == 2
AddJobCaller == 3
GetJobCaller == 4
SecondWorker == 5
RetryCaller == 6
LockWorkers == {GetJobCaller, SecondWorker}
LockTasks == {PollerTask, SchedulerCaller, AddJobCaller, RetryCaller} \cup LockWorkers

\* MaxRetries of the job of the lock-level run that fails.
MaxLockRetries == 1

\* The jobs the producers of the lock-level run make: the first is a Low job
\* the handler fails on, every later one a High job it succeeds on.
LockJobs(n) ==
    IF n = 0 THEN {Job(NewID(n + 1), Low, 0, MaxLockRetries, ErrorAddr)}
    ELSE {Job(NewID(n + 1), High, 0, 0, OkAddr)}

\* A poller that unlocks s.mu before it calls AddJob.
PollerReleasesHeapLockFirst == FALSE

\* poller: s.queue.AddJob(next.Job) stands between s.mu.Lock() and s.mu.Unlock().
PollerKeepsHeapLock == TRUE

\* A poller that unlocks s.mu only on the path that popped an entry.
PollerUnlocksAfterPopOnly == FALSE

\* poller: s.mu.Unlock() stands after both ifs, on every path of the pass.
PollerUnlocksEveryPass == TRUE

\* A GetJob that returns with q.mu still locked.
GetJobReturnsLocked == FALSE

\* GetJob: defer q.mu.Unlock() runs at each of its four returns.
GetJobUnlocksAtReturn == TRUE

InitLock ==
    /\ queue = NewQueue
    /\ deadLetterQueue = NewQueue
    /\ last = IdleLast
    /\ IdleDrain
    /\ mu = Free /\ cphase = "none" /\ cpc = << >> /\ ci = << >> /\ cbuf = << >>
    /\ heap = << >> /\ now = 0 /\ pollAt = 0
    /\ wpc = << >> /\ wj = << >> /\ wwake = << >> /\ timers = {}
    /\ used = {} /\ handled = << >> /\ sched = << >>
    /\ IdleRetry
    /\ IdleSnap
    /\ IdleCli
    /\ IdleHeap
    /\ lk = [smu |-> Free,
             pc |-> [t \in LockTasks |-> IF t \in LockWorkers THEN "lockQ" ELSE "idle"],
             n |-> 0,
             next |-> NoJob,
             arg |-> [t \in {SchedulerCaller, AddJobCaller, RetryCaller} |-> NoJob],
             delay |-> 0,
             wj |-> [w \in LockWorkers |-> NoJob],
             asleep |-> {}]

\* A producer calls s.Scheduler(job, delay) and comes to s.mu.Lock().
LkSchedulerCall(job, delay) ==
    /\ lk.pc[SchedulerCaller] = "idle"
    /\ lk.n < MaxLockJobs
    /\ lk' = [lk EXCEPT !.pc[SchedulerCaller] = "lockS", !.arg[SchedulerCaller] = job,
                        !.delay = delay, !.n = @ + 1]
    /\ UNCHANGED <<queue, deadLetterQueue, mu, heap, now, pollAt, idleInLock>>

\* Scheduler: s.mu.Lock()
LkSchedulerLock ==
    /\ lk.pc[SchedulerCaller] = "lockS"
    /\ lk.smu = Free
    /\ lk' = [lk EXCEPT !.smu = SchedulerCaller, !.pc[SchedulerCaller] = "push"]
    /\ UNCHANGED <<queue, deadLetterQueue, mu, heap, now, pollAt, idleInLock>>

\* Scheduler: heap.Push(&s.heap, scheduled), then the deferred s.mu.Unlock()
LkSchedulerPush ==
    /\ lk.pc[SchedulerCaller] = "push"
    /\ heap' = HeapPush(heap, [Job |-> lk.arg[SchedulerCaller],
                               ScheduleTime |-> now + lk.delay, index |-> 0])
    /\ lk' = [lk EXCEPT !.smu = Free, !.pc[SchedulerCaller] = "idle",
                        !.arg[SchedulerCaller] = NoJob, !.delay = 0]
    /\ UNCHANGED <<queue, deadLetterQueue, mu, now, pollAt, idleInLock>>

\* A producer calls q.AddJob(job) and comes to q.mu.Lock().
LkAddJobCall(job) ==
    /\ lk.pc[AddJobCaller] = "idle"
    /\ lk.n < MaxLockJobs
    /\ lk' = [lk EXCEPT !.pc[AddJobCaller] = "lockQ", !.arg[AddJobCaller] = job, !.n = @ + 1]
    /\ UNCHANGED <<queue, deadLetterQueue, mu, heap, now, pollAt, idleInLock>>

\* AddJob: q.mu.Lock()
LkAddJobLock ==
    /\ lk.pc[AddJobCaller] = "lockQ"
    /\ mu = Free
    /\ mu' = AddJobCaller
    /\ lk' = [lk EXCEPT !.pc[AddJobCaller] = "append"]
    /\ UNCHANGED <<queue, deadLetterQueue, heap, now, pollAt, idleInLock>>

\* AddJob: the append, then the deferred q.mu.Unlock()
LkAddJobAppend ==
    /\ lk.pc[AddJobCaller] = "append"
    /\ queue' = AddJobLanes(queue, lk.arg[AddJobCaller])
    /\ mu' = Free
    /\ lk' = [lk EXCEPT !.pc[AddJobCaller] = "idle", !.arg[AddJobCaller] = NoJob]
    /\ UNCHANGED <<deadLetterQueue, heap, now, pollAt, idleInLock>>

\* A worker's GetJob: q.mu.Lock()
LkGetJobLock(w) ==
    /\ lk.pc[w] = "lockQ"
    /\ mu = Free
    /\ mu' = w
    /\ lk' = [lk EXCEPT !.pc[w] = "pop"]
    /\ UNCHANGED <<queue, deadLetterQueue, heap, now, pollAt, idleInLock>>

\* GetJob: the lane tests, then the deferred q.mu.Unlock(); back in Start the
\* worker sleeps (no job, or a job without ID) or calls handleJob.
LkGetJobPop(w) ==
    LET r == PopLanes(queue)
    IN  /\ lk.pc[w] = "pop"
        /\ queue' = r.lanes
        /\ mu' = IF GetJobUnlocksAtReturn THEN Free ELSE mu
        /\ lk' = [lk EXCEPT !.wj[w] = r.job,
                            !.pc[w] = IF ~r.err /\ r.job.ID # "" THEN "handle" ELSE "sleep"]
        /\ UNCHANGED <<deadLetterQueue, heap, now, pollAt, idleInLock>>

\* Start: time.Sleep(1 * time.Second) returns; the worker comes to GetJob again.
LkWorkerWake(w) ==
    /\ lk.pc[w] = "sleep"
    /\ lk' = [lk EXCEPT !.pc[w] = "lockQ"]
    /\ UNCHANGED <<queue, deadLetterQueue, mu, heap, now, pollAt, idleInLock>>

\* Start: handleJob(j) returns; on an error j.RetryCount++, then the retry
\* goroutine is started or the worker comes to MoveJobToDeadLetterQueue.
LkHandled(w) ==
    LET j == [lk.wj[w] EXCEPT !.RetryCount = @ + 1]
    IN  /\ lk.pc[w] = "handle"
        /\ lk' = IF ~handleJob(lk.wj[w])
                 THEN [lk EXCEPT !.pc[w] = "lockQ"]
                 ELSE IF MayRetry(j)
                 THEN [lk EXCEPT !.pc[w] = "lockQ", !.wj[w] = j, !.asleep = @ \cup {j}]
                 ELSE [lk EXCEPT !.pc[w] = "lockD", !.wj[w] = j]
        /\ UNCHANGED <<queue, deadLetterQueue, mu, heap, now, pollAt, idleInLock>>

\* A worker's MoveJobToDeadLetterQueue: q.mu.Lock()
LkMoveLock(w) ==
    /\ lk.pc[w] = "lockD"
    /\ mu = Free
    /\ mu' = w
    /\ lk' = [lk EXCEPT !.pc[w] = "move"]
    /\ UNCHANGED <<queue, deadLetterQueue, heap, now, pollAt, idleInLock>>

\* MoveJobToDeadLetterQueue: RemoveJob and append, then the deferred q.mu.Unlock()
LkMove(w) ==
    LET r == MoveLanes(queue, deadLetterQueue, lk.wj[w])
    IN  /\ lk.pc[w] = "move"
        /\ queue' = r.queue
        /\ deadLetterQueue' = r.dead
        /\ mu' = Free
        /\ lk' = [lk EXCEPT !.pc[w] = "lockQ"]
        /\ UNCHANGED <<heap, now, pollAt, idleInLock>>

\* A retry goroutine: time.Sleep(delay) returns and it comes to AddJob's q.mu.Lock().
LkRetryWake(job) ==
    /\ lk.pc[RetryCaller] = "idle"
    /\ job \in lk.asleep
    /\ lk' = [lk EXCEPT !.pc[RetryCaller] = "lockQ", !.arg[RetryCaller] = job,
                        !.asleep = @ \ {job}]
    /\ UNCHANGED <<queue, deadLetterQueue, mu, heap, now, pollAt, idleInLock>>

\* The retry goroutine's AddJob: q.mu.Lock()
LkRetryLock ==
    /\ lk.pc[RetryCaller] = "lockQ"
    /\ mu = Free
    /\ mu' = RetryCaller
    /\ lk' = [lk EXCEPT !.pc[RetryCaller] = "append"]
    /\ UNCHANGED <<queue, deadLetterQueue, heap, now, pollAt, idleInLock>>

\* The retry goroutine's AddJob: the append, then the deferred q.mu.Unlock()
LkRetryAppend ==
    /\ lk.pc[RetryCaller] = "append"
    /\ queue' = AddJobLanes(queue, lk.arg[RetryCaller])
    /\ mu' = Free
    /\ lk' = [lk EXCEPT !.pc[RetryCaller] = "idle", !.arg[RetryCaller] = NoJob]
    /\ UNCHANGED <<deadLetterQueue, heap, now, pollAt, idleInLock>>

\* poller: s.mu.Lock()
LkPollerLock ==
    /\ lk.pc[PollerTask] = "idle"
    /\ pollAt <= now
    /\ lk.smu = Free
    /\ lk' = [lk EXCEPT !.smu = PollerTask, !.pc[PollerTask] = "test"]
    /\ UNCHANGED <<queue, deadLetterQueue, mu, heap, now, pollAt, idleInLock>>

\* poller: the two tests and heap.Pop(&s.heap)
LkPollerTest ==
    /\ lk.pc[PollerTask] = "test"
    /\ IF Len(heap) > 0 /\ now > heap[1].ScheduleTime
       THEN /\ heap' = HeapPop(heap)
            /\ lk' = [lk EXCEPT !.next = heap[1].Job, !.pc[PollerTask] = "lockQ"]
       ELSE /\ lk' = [lk EXCEPT !.pc[PollerTask] = "unlockS"]
            /\ UNCHANGED heap
    /\ UNCHANGED <<queue, deadLetterQueue, mu, now, pollAt, idleInLock>>

\* poller: s.queue.AddJob(next.Job) takes q.mu
LkPollerAddJobLock ==
    /\ lk.pc[PollerTask] = "lockQ"
    /\ mu = Free
    /\ mu' = PollerTask
    /\ lk' = [lk EXCEPT !.pc[PollerTask] = "append",
                        !.smu = IF PollerKeepsHeapLock THEN @ ELSE Free]
    /\ UNCHANGED <<queue, deadLetterQueue, heap, now, pollAt, idleInLock>>

\* poller: AddJob appends and unlocks q.mu
LkPollerAddJobAppend ==
    /\ lk.pc[PollerTask] = "append"
    /\ queue' = AddJobLanes(queue, lk.next)
    /\ mu' = Free
    /\ lk' = [lk EXCEPT !.pc[PollerTask] = "unlockS"]
    /\ UNCHANGED <<deadLetterQueue, heap, now, pollAt, idleInLock>>

\* poller: s.mu.Unlock(), time.Sleep(500 * time.Millisecond)
LkPollerUnlock ==
    /\ lk.pc[PollerTask] = "unlockS"
    /\ lk' = [lk EXCEPT !.smu = IF @ = PollerTask /\ (PollerUnlocksEveryPass \/ lk.next # NoJob)
                                 THEN Free ELSE @,
                        !.pc[PollerTask] = "idle",
                        !.next = NoJob]
    /\ pollAt' = now + PollInterval
    /\ UNCHANGED <<queue, deadLetterQueue, mu, heap, now, idleInLock>>

\* Time passes; a task in the middle of a call may be held up for as long.
LkTick ==
    /\ now < MaxLockTime
    /\ lk.pc[PollerTask] = "idle" => pollAt > now
    /\ now' = now + 1
    /\ UNCHANGED <<queue, deadLetterQueue, mu, heap, pollAt, lk, idleInLock>>

NextLock ==
    \/ \E job \in LockJobs(lk.n), delay \in 0..MaxLockDelay : LkSchedulerCall(job, delay)
    \/ LkSchedulerLock
    \/ LkSchedulerPush
    \/ \E job \in LockJobs(lk.n) : LkAddJobCall(job)
    \/ LkAddJobLock
    \/ LkAddJobAppend
    \/ \E w \in LockWorkers : LkGetJobLock(w)
    \/ \E w \in LockWorkers : LkGetJobPop(w)
    \/ \E w \in LockWorkers : LkWorkerWake(w)
    \/ \E w \in LockWorkers : LkHandled(w)
    \/ \E w \in LockWorkers : LkMoveLock(w)
    \/ \E w \in LockWorkers : LkMove(w)
    \/ \E job \in lk.asleep : LkRetryWake(job)
    \/ LkRetryLock
    \/ LkRetryAppend
    \/ LkPollerLock
    \/ LkPollerTest
    \/ LkPollerAddJobLock
    \/ LkPollerAddJobAppend
    \/ LkPollerUnlock
    \/ LkTick

SpecLock == InitLock /\ [][NextLock]_vars

\* A step of the task that holds JobQueue.mu, to the end of its call.
StoreHolderStep ==
    \/ LkAddJobAppend
    \/ LkRetryAppend
    \/ LkPollerAddJobAppend
    \/ \E w \in LockWorkers : LkGetJobPop(w) \/ LkMove(w)

\* A step of the task that holds Scheduler.mu and does not wait for JobQueue.mu.
HeapHolderStep == LkSchedulerPush \/ LkPollerTest \/ LkPollerUnlock

\* Every goroutine inside a critical section goes on to its end, and
\* sync.Mutex hands the lock to a goroutine that keeps waiting for it (its
\* starvation mode): a Lock that can be taken again and again is taken.
FairnessLock ==
    /\ WF_vars(StoreHolderStep)
    /\ WF_vars(HeapHolderStep)
    /\ SF_vars(LkSchedulerLock)
    /\ SF_vars(LkPollerLock)
    /\ SF_vars(LkAddJobLock)
    /\ SF_vars(LkRetryLock)
    /\ SF_vars(LkPollerAddJobLock)
    /\ \A w \in LockWorkers : SF_vars(LkGetJobLock(w) \/ LkMoveLock(w))

FairSpecLock == SpecLock /\ FairnessLock

\* ------------------------------------------------------------- the scheduler's heap, call by call

\* Scheduler calls of one run, the longest delay passed in and the time the
\* clock of the run stops at (delays and time in units of 500 ms).
MaxHeapJobs == 4
MaxHeapDelay == 3
MaxHeapTime == 4

\* No entry: what a poller pass that pops nothing has taken.
NoEntry == [Job |-> NoJob, ScheduleTime |-> -1, index |-> -1]

InitHeap ==
    /\ queue = NewQueue
    /\ deadLetterQueue = NewQueue
    /\ last = IdleLast
    /\ IdleDrain
    /\ IdleConc
    /\ heap = << >> /\ now = 0 /\ pollAt = 0
    /\ wpc = << >> /\ wj = << >> /\ wwake = << >> /\ timers = {}
    /\ used = {} /\ handled = << >> /\ sched = << >>
    /\ IdleRetry
    /\ IdleSnap
    /\ IdleCli
    /\ IdleLock
    /\ hp = [op |-> "NewScheduler", before |-> << >>, entry |-> NoEntry, at |-> 0, n |-> 0]

\* s.Scheduler(j, delay): heap.Push of the entry with ScheduleTime now + delay.
HpScheduler(delay) ==
    LET x == [Job |-> Job(NewID(hp.n + 1), High, 0, 0, OkAddr),
              ScheduleTime |-> now + delay, index |-> 0]
    IN  /\ hp.n < MaxHeapJobs
        /\ heap' = HeapPush(heap, x)
        /\ hp' = [op |-> "Push", before |-> heap, entry |-> x, at |-> now, n |-> hp.n + 1]
        /\ UNCHANGED <<queue, now, pollAt, idleInHeap>>

\* One pass of the poller's loop at the time now, then its sleep.
HpPoller ==
    LET r == Poll(heap, queue, now)
    IN  /\ pollAt <= now
        /\ heap' = r.heap
        /\ queue' = r.queue
        /\ pollAt' = now + PollInterval
        /\ hp' = [op |-> "poller", before |-> heap,
                  entry |-> IF Len(r.heap) < Len(heap) THEN heap[1] ELSE NoEntry,
                  at |-> now, n |-> hp.n]
        /\ UNCHANGED <<now, idleInHeap>>

\* Time passes while the poller sleeps.
HpTick ==
    /\ now < MaxHeapTime
    /\ pollAt > now
    /\ now' = now + 1
    /\ UNCHANGED <<queue, heap, pollAt, hp, idleInHeap>>

NextHeap ==
    \/ \E delay \in 0..MaxHeapDelay : HpScheduler(delay)
    \/ HpPoller
    \/ HpTick

SpecHeap == InitHeap /\ [][NextHeap]_vars

\* ------------------------------------------------------------- the whole system

Workers == 1..NumWorkers

\* IDs a producer gives its jobs; "" is the ID of the zero Job.
SysIDs == {"", "a", "b"}
\* The jobs producers pass in, RetryCount 0, of every priority: "a" always
\* fails, with every MaxRetries; "b" fails or succeeds; one job has the ID "".
SysJobs ==
    {Job("a", p, 0, m, ErrorAddr) : p \in Priorities, m \in 0..MaxMaxRetries}
    \cup {Job("b", p, 0, 0, to) : p \in Priorities, to \in {ErrorAddr, OkAddr}}
    \cup {Job("", p, 0, 0, ErrorAddr) : p \in Priorities}

NotScheduled == [at |-> -1, delay |-> 0, promoted |-> -1, n |-> 0]

Init ==
    /\ queue = NewQueue
    /\ deadLetterQueue = NewQueue
    /\ last = IdleLast
    /\ IdleDrain
    /\ IdleConc
    /\ IdleAux
    /\ heap = << >>
    /\ now = 0
    /\ pollAt = 0
    /\ wpc = [w \in Workers |-> "get"]
    /\ wj = [w \in Workers |-> NoJob]
    /\ wwake = [w \in Workers |-> 0]
    /\ timers = {}
    /\ used = {}
    /\ handled = [id \in SysIDs |-> 0]
    /\ sched = [id \in SysIDs |-> NotScheduled]

\* Producers pass in MaxJobs jobs at most, of distinct IDs, up to MaxSubmitTime.
Fresh(job) ==
    /\ Cardinality(used) < MaxJobs
    /\ \A u \in used : u.ID # job.ID
    /\ now <= MaxSubmitTime

\* A producer's q.AddJob(job).
ProducerAddJob(job) ==
    /\ Fresh(job)
    /\ queue' = AddJobLanes(queue, job)
    /\ used' = used \cup {job}
    /\ UNCHANGED <<deadLetterQueue, schedVars, workerVars, handled, sched, now, idleInSys>>

\* A producer's s.Scheduler(job, delay).
Scheduler(job, delay) ==
    /\ Fresh(job)
    /\ heap' = HeapPush(heap, [Job |-> job, ScheduleTime |-> now + delay, index |-> 0])
    /\ used' = used \cup {job}
    /\ sched' = [sched EXCEPT ![job.ID] = [at |-> now, delay |-> delay, promoted |-> -1, n |-> 0]]
    /\ UNCHANGED <<storeVars, pollAt, workerVars, handled, now, idleInSys>>

\* One pass of the poller's loop, then time.Sleep(500 * time.Millisecond).
poller ==
    LET r == Poll(heap, queue, now)
        gone == {heap[i].Job.ID : i \in 1..Len(heap)} \ {r.heap[i].Job.ID : i \in 1..Len(r.heap)}
    IN  /\ pollAt <= now
        /\ heap' = r.heap
        /\ queue' = r.queue
        /\ pollAt' = now + PollInterval
        /\ sched' = [id \in SysIDs |->
                        IF id \in gone THEN [sched[id] EXCEPT !.promoted = now, !.n = @ + 1] ELSE sched[id]]
        /\ UNCHANGED <<deadLetterQueue, workerVars, used, handled, now, idleInSys>>

\* j, err := w.Queue.GetJob() and the two tests that follow it.
WorkerGetJob(w) ==
    LET r == PopLanes(queue)
    IN  /\ wpc[w] = "get"
        /\ queue' = r.lanes
        /\ wj' = [wj EXCEPT ![w] = r.job]
        /\ IF r.err
           THEN /\ wpc' = [wpc EXCEPT ![w] = "sleepNoJob"]
                /\ wwake' = [wwake EXCEPT ![w] = now + SleepTime]
                /\ UNCHANGED handled
           ELSE IF r.job.ID # ""
           THEN /\ wpc' = [wpc EXCEPT ![w] = "handle"]
                /\ wwake' = [wwake EXCEPT ![w] = now + HandleTime]
                /\ handled' = [handled EXCEPT ![r.job.ID] = @ + 1]
           ELSE /\ wpc' = [wpc EXCEPT ![w] = "sleepNoID"]
                /\ wwake' = [wwake EXCEPT ![w] = now + SleepTime]
                /\ UNCHANGED handled
        /\ UNCHANGED <<deadLetterQueue, schedVars, timers, used, sched, now, idleInSys>>

\* time.Sleep(1 * time.Second) returns; continue.
WorkerWake(w) ==
    /\ wpc[w] \in {"sleepNoJob", "sleepNoID"}
    /\ wwake[w] <= now
    /\ wpc' = [wpc EXCEPT ![w] = "get"]
    /\ UNCHANGED <<storeVars, schedVars, wj, wwake, timers, histVars, now, idleInSys>>

\* handleJob(j) returns: on an error j.RetryCount++, then the retry goroutine
\* is started or the job goes to the dead-letter queue.
WorkerHandled(w) ==
    LET j == [wj[w] EXCEPT !.RetryCount = @ + 1]
    IN  /\ wpc[w] = "handle"
        /\ wwake[w] <= now
        /\ IF ~handleJob(wj[w])
           THEN /\ wpc' = [wpc EXCEPT ![w] = "get"]
                /\ UNCHANGED <<wj, timers>>
           ELSE IF MayRetry(j)
           THEN /\ wpc' = [wpc EXCEPT ![w] = "get"]
                /\ wj' = [wj EXCEPT ![w] = j]
                /\ timers' = timers \cup {[job |-> j, due |-> now + Backoff(j.RetryCount)]}
           ELSE /\ wpc' = [wpc EXCEPT ![w] = "dead"]
                /\ wj' = [wj EXCEPT ![w] = j]
                /\ UNCHANGED timers
        /\ UNCHANGED <<storeVars, schedVars, wwake, histVars, now, idleInSys>>

\* w.Queue.MoveJobToDeadLetterQueue(j).
WorkerDeadLetter(w) ==
    LET r == MoveLanes(queue, deadLetterQueue, wj[w])
    IN  /\ wpc[w] = "dead"
        /\ queue' = r.queue
        /\ deadLetterQueue' = r.dead
        /\ wpc' = [wpc EXCEPT ![w] = "get"]
        /\ UNCHANGED <<schedVars, wj, wwake, timers, histVars, now, idleInSys>>

\* The retry goroutine: time.Sleep(delay) returns, w.Queue.AddJob(jobCopy).
RetryTimer(t) ==
    /\ t \in timers
    /\ t.due <= now
    /\ queue' = AddJobLanes(queue, t.job)
    /\ timers' = timers \ {t}
    /\ UNCHANGED <<deadLetterQueue, schedVars, wpc, wj, wwake, histVars, now, idleInSys>>

\* A job is still on its way: in the heap, pending, with a worker or waiting
\* for its retry.
Busy ==
    \/ heap # << >>
    \/ timers # {}
    \/ \E p \in Priorities : queue[p] # << >>
    \/ \E w \in Workers : wpc[w] \in {"handle", "dead"}

\* Time passes once every goroutine sleeps: the poller, each worker (in its
\* own sleep or in handleJob's) and each retry goroutine. The clock runs to
\* MaxTime, and past it for as long as a job is on its way.
Tick ==
    /\ now < MaxTime \/ Busy
    /\ pollAt > now
    /\ \A w \in Workers : wpc[w] \in {"sleepNoJob", "sleepNoID", "handle"} /\ wwake[w] > now
    /\ \A t \in timers : t.due > now
    /\ now' = now + 1
    /\ UNCHANGED <<storeVars, schedVars, workerVars, histVars, idleInSys>>

Next ==
    \/ \E job \in SysJobs : ProducerAddJob(job)
    \/ \E job \in SysJobs, delay \in 0..MaxDelay : Scheduler(job, delay)
    \/ poller
    \/ \E w \in Workers : WorkerGetJob(w)
    \/ \E w \in Workers : WorkerWake(w)
    \/ \E w \in Workers : WorkerHandled(w)
    \/ \E w \in Workers : WorkerDeadLetter(w)
    \/ \E t \in timers : RetryTimer(t)
    \/ Tick

Spec == Init /\ [][Next]_vars

\* The goroutines the program starts keep running and time keeps passing: the
\* poller, each worker, each retry goroutine. Producers owe nothing.
Fairness ==
    /\ WF_vars(poller)
    /\ WF_vars(Tick)
    /\ WF_vars(\E t \in timers : RetryTimer(t))
    /\ \A w \in Workers :
          WF_vars(WorkerGetJob(w) \/ WorkerWake(w) \/ WorkerHandled(w) \/ WorkerDeadLetter(w))

FairSpec == Spec /\ Fairness

\* ------------------------------------------------------------- properties

IsPrefix(a, b) == Len(a) <= Len(b) /\ SubSeq(b, 1, Len(a)) = a

OfPriority(l, p) == SelectSeq(l, LAMBDA j : j.Priority = p)

\* Priority-then-FIFO order of the jobs of l.
PriorityOrder(l) == OfPriority(l, High) \o OfPriority(l, Medium) \o OfPriority(l, Low)

HasID(jobs, id) == \E i \in 1..Len(jobs) : jobs[i].ID = id

\* jobs with its i-th entry taken out
Without(jobs, i) == SubSeq(jobs, 1, i - 1) \o SubSeq(jobs, i + 1, Len(jobs))

\* C1: AddJob calls in any interleaving of the three priorities, then GetJob
\* until "no job found": every job returned so far is the next one of the
\* priority-then-FIFO order of the jobs enqueued (all High in enqueue order,
\* then all Medium, then all Low), and at "no job found" all of them have
\* been returned.
C1_DequeuePriorityThenFIFO ==
    mode = "pending" =>
        /\ IsPrefix(out, PriorityOrder(log))
        /\ phase = "done" => out = PriorityOrder(log)

\* A drained run whose enqueues interleave the priorities: Low, High, Low, Medium.
C1_Witness ==
    /\ mode = "pending"
    /\ phase = "done"
    /\ Len(log) = 4
    /\ <<log[1].Priority, log[2].Priority, log[3].Priority, log[4].Priority>>
         = <<Low, High, Low, Medium>>
    /\ log[1].ID # log[3].ID
    /\ Len(out) = 4

\* How many entries of jobs have the ID.
RECURSIVE CountID(_, _)
CountID(jobs, id) ==
    IF jobs = << >> THEN 0
    ELSE (IF Head(jobs).ID = id THEN 1 ELSE 0) + CountID(Tail(jobs), id)

\* What GetAllJobs returns once the adders are done (no goroutine is inside a call).
AddersDone == cphase = "add" /\ \A g \in Goroutines : cpc[g] = "done"
RemoversDone == cphase = "remove" /\ \A g \in Goroutines : cpc[g] = "done"

\* Where the job of an ID is.
InHeap(id) == \E i \in 1..Len(heap) : heap[i].Job.ID = id
Pending(id) == \E p \in Priorities : HasID(queue[p], id)
InFlight(id) == \E w \in Workers : wpc[w] \in {"handle", "dead"} /\ wj[w].ID = id
InRetry(id) == \E t \in timers : t.job.ID = id
DeadLettered(id) == \E p \in Priorities : HasID(deadLetterQueue[p], id)

\* Nothing is left to happen to the job: it is not in the heap, not pending,
\* not with a worker and not waiting for a retry.
Settled(id) == ~InHeap(id) /\ ~Pending(id) /\ ~InFlight(id) /\ ~InRetry(id)

\* What C2 says of one job passed in with a payload the handler fails on.
AlwaysFailingJobEnds(job) ==
    LET m == job.MaxRetries
        final == [job EXCEPT !.RetryCount = m + 1]
    IN  /\ handled[job.ID] <= m + 1
        /\ DeadLettered(job.ID) => Settled(job.ID)
        /\ Settled(job.ID) =>
               /\ handled[job.ID] = m + 1
               /\ deadLetterQueue[job.Priority] = <<final>>
                  \/ (Len(deadLetterQueue[job.Priority]) = 2
                      /\ \E i \in 1..2 : deadLetterQueue[job.Priority][i] = final)
               /\ \A r \in Priorities \ {job.Priority} : ~HasID(deadLetterQueue[r], job.ID)

\* C2: a job passed in with MaxRetries = m and a payload handleJob fails on is
\* handed to handleJob m + 1 times at most, and once nothing is left to happen
\* to it, it has been handed to handleJob exactly m + 1 times and sits in the
\* dead-letter lane of its priority with RetryCount = m + 1, in no pending lane.
C2_AlwaysFailingJob ==
    \A job \in used : job.Payload = ErrorAddr => AlwaysFailingJobEnds(job)

\* C2 for the jobs whose ID is not "": what holds of the code.
C2_AlwaysFailingJobWithID ==
    \A job \in used : (job.Payload = ErrorAddr /\ job.ID # "") => AlwaysFailingJobEnds(job)

\* A Medium job with MaxRetries = 1 dead-lettered after two attempts.
C2_WitnessWithID ==
    \E job \in used :
        /\ job.ID # "" /\ job.Payload = ErrorAddr /\ job.MaxRetries = 1 /\ job.Priority = Medium
        /\ Settled(job.ID)
        /\ handled[job.ID] = 2

\* C3: a job passed to Scheduler at time at with delay d is enqueued no
\* earlier than at + d and no later than at + d + PollInterval, whatever else
\* is in the heap.
C3_PromotedWithinPollInterval ==
    \A id \in SysIDs :
        sched[id].at # -1 =>
            LET fire == sched[id].at + sched[id].delay
            IN  IF sched[id].promoted # -1
                THEN fire <= sched[id].promoted /\ sched[id].promoted <= fire + PollInterval
                ELSE now <= fire + PollInterval

\* The lower bound of C3 alone: no job is enqueued before its ScheduleTime
\* has passed.
C3_NotBeforeDelay ==
    \A id \in SysIDs :
        (sched[id].at # -1 /\ sched[id].promoted # -1) =>
            sched[id].promoted > sched[id].at + sched[id].delay

\* A step in which worker w's GetJob returns.
Dequeues(w) == wpc[w] = "get" /\ wpc'[w] # "get"

ExactBackoffNs(k) == Mul(TwoToThe(k, 2 * DurationBytes), FromNat(1000000000, 2 * DurationBytes), 2 * DurationBytes)

\* What C11 says of the delay computed for RetryCount = k.
BackoffAsClaimed(k, d) ==
    /\ Positive(d)
    /\ SignExtend(d, 2 * DurationBytes) = ExactBackoffNs(k)
    /\ k >= 2 => \A e \in BackoffDurations(k - 1) : SignedLess(e, d)

\* C11: after a failed attempt that leaves RetryCount = k <= MaxRetries, for
\* every k >= 1, the delay before the job re-enters its lane is exactly 2^k
\* seconds, positive, and greater than the delay for k - 1.
C11_BackoffExactAndGrowing ==
    rt.pc = "asleep" => BackoffAsClaimed(rt.RetryCount, rt.delay)

\* C11 up to k = 33, the last k whose 2^k seconds fit a Duration.
C11_BackoffUpTo33 ==
    (rt.pc = "asleep" /\ rt.RetryCount <= 33) => BackoffAsClaimed(rt.RetryCount, rt.delay)

\* The delay for RetryCount = 34 is computed and is negative.
C11_WitnessWrapped ==
    rt.pc = "asleep" /\ rt.RetryCount = 34 /\ Negative(rt.delay)

\* Backoff, the delay in units of 500 ms used by the retry goroutines of the
\* whole system, is the Duration the code computes, for the k where it is small.
C11_BackoffUnitsAgree ==
    (rt.pc = "asleep" /\ rt.RetryCount <= 20) =>
        rt.delay = Mul(FromNat(Backoff(rt.RetryCount), DurationBytes), HalfSecondNs, DurationBytes)

\* In the whole system a job waiting for its retry is in no pending lane, and
\* its retry goroutine wakes within Backoff(RetryCount) of now.
C11_AsleepNotPending ==
    \A t \in timers :
        /\ ~Pending(t.job.ID)
        /\ t.job.RetryCount >= 1 /\ t.job.RetryCount <= t.job.MaxRetries
        /\ t.due <= now + Backoff(t.job.RetryCount)

\* handleJob has returned nil for the job of this ID: it was called, and no
\* worker is inside the call.
Succeeded(job) ==
    /\ job.Payload = OkAddr
    /\ handled[job.ID] >= 1
    /\ ~\E w \in Workers : wpc[w] = "handle" /\ wj[w].ID = job.ID

\* C12: once handleJob has succeeded on a job, the job is in no pending lane,
\* no dead-letter lane, no retry goroutine, not in the scheduler heap and with
\* no worker, and handleJob has been called on it once only.
C12_SuccessEndsLifecycle ==
    \A job \in used :
        Succeeded(job) =>
            /\ Settled(job.ID)
            /\ ~DeadLettered(job.ID)
            /\ handled[job.ID] = 1

\* A job has succeeded and two seconds later it is still nowhere.
C12_Witness ==
    \E job \in used :
        /\ Succeeded(job)
        /\ sched[job.ID].promoted # -1
        /\ now >= sched[job.ID].promoted + HandleTime + 2 * Second

\* The slices hold what the lanes of the sequence-level model hold.
SlicesAreLanes ==
    \A p \in Priorities :
        /\ Contents(sl.q[p]) = queue[p]
        /\ Contents(sl.d[p]) = deadLetterQueue[p]

\* C13: the sequences GetAllJobs and GetAllDeadLetterJobs returned are the
\* lanes in FIFO order as they were at the call, and they stay what they were
\* when the store is changed afterwards by AddJob, GetJob, RemoveJobFromQueue
\* or MoveJobToDeadLetterQueue.
C13_SnapshotsDoNotChange ==
    /\ snap.q.taken => View(snap.q, sl.q) = snap.q.at
    /\ snap.d.taken => View(snap.d, sl.d) = snap.d.at

\* C13 for GetAllDeadLetterJobs alone: the dead-letter lanes are only
\* appended to and re-sliced, never rewritten in place.
C13_DeadLetterSnapshotDoesNotChange ==
    snap.d.taken => View(snap.d, sl.d) = snap.d.at

\* Both calls return the lanes as they are at the call.
C13_SnapshotAtCall ==
    [][/\ (snap'.q # snap.q /\ sl' = sl) => (snap'.q.at = queue /\ View(snap'.q, sl'.q) = queue)
       /\ (snap'.d # snap.d /\ sl' = sl) =>
              (snap'.d.at = deadLetterQueue /\ View(snap'.d, sl'.d) = deadLetterQueue)]_vars

\* A dead-letter snapshot of two jobs, and the store has since given one out
\* and taken another in.
C13_WitnessDeadLetter ==
    /\ snap.d.taken
    /\ \E p \in Priorities :
          /\ Len(snap.d.at[p]) = 2
          /\ Len(deadLetterQueue[p]) = 2
          /\ deadLetterQueue[p] # snap.d.at[p]

\* The heap entries that hold the job of this ID.
InHeapCount(id) == Cardinality({i \in 1..Len(heap) : heap[i].Job.ID = id})

\* A poller step that takes the job of this ID out of the heap.
Promotes(id) == sched[id].promoted = -1 /\ sched'[id].promoted # -1

\* The job passed to Scheduler with this ID (IDs are distinct).
JobOf(id) == CHOOSE job \in used : job.ID = id

\* For every job passed to Scheduler: it is in the heap once until it is
\* promoted and not at all afterwards, and it is promoted once at most and
\* not before its ScheduleTime.
PromotedOnceAtMost ==
    \A id \in SysIDs :
        sched[id].at # -1 =>
            /\ sched[id].n <= 1
            /\ sched[id].n = 1 <=> sched[id].promoted # -1
            /\ InHeapCount(id) = (IF sched[id].promoted = -1 THEN 1 ELSE 0)
            /\ sched[id].promoted # -1 => sched[id].promoted >= sched[id].at + sched[id].delay

\* The step that promotes a job appends it to the pending lane of its priority.
PromotionEnqueues ==
    \A id \in SysIDs :
        Promotes(id) =>
            LET job == JobOf(id)
            IN  /\ queue'[job.Priority] = Append(queue[job.Priority], job)
                /\ \A i \in 1..Len(heap') : heap'[i].Job.ID # id

\* C14: every job passed to Scheduler is promoted exactly once: enqueued into
\* the pending lane of its priority one time and taken out of the heap in the
\* same step, never before its ScheduleTime, and with a poller that keeps
\* running it is promoted eventually.
C14_PromotedExactlyOnce ==
    /\ []PromotedOnceAtMost
    /\ [][PromotionEnqueues]_vars
    /\ \A id \in SysIDs : (sched[id].at # -1) ~> (sched[id].promoted # -1)

\* Two jobs were passed to Scheduler and both have been promoted.
C14_Witness ==
    /\ sched["a"].n = 1
    /\ sched["b"].n = 1
    /\ heap = << >>

\* The priority a value of --priority names (README, flags of enqueue).
PriorityNamed(flag) ==
    CASE flag = "high" -> High
      [] flag = "medium" -> Medium
      [] flag = "low" -> Low

\* The job of command c is where the command put it (the heap, or the pending
\* lane the poller moved it to) with the priority p.
LandsWith(c, p) ==
    /\ c.job.Priority = p
    /\ \/ \E i \in 1..Len(heap) : heap[i].Job = c.job
       \/ HasID(queue[p], c.job.ID)
    /\ \A r \in Priorities \ {p} : ~HasID(queue[r], c.job.ID)

\* C15: the job an enqueue command creates has the priority its --priority
\* flag names ("low": Low, "medium": Medium, "high": High) and lands in the
\* lane of that priority.
C15_PriorityFlagNamesLane ==
    \A i \in 1..Len(cli) : LandsWith(cli[i], PriorityNamed(cli[i].priority))

\* C15 for "low" and "high" alone.
C15_LowAndHighFlags ==
    \A i \in 1..Len(cli) :
        cli[i].priority # "medium" => LandsWith(cli[i], PriorityNamed(cli[i].priority))

\* A delayed "high" job has reached the High lane behind an undelayed one.
C15_WitnessHigh ==
    /\ Len(cli) = 2
    /\ Len(queue[High]) = 2
    /\ \E i \in 1..2 : cli[i].delay > 0 /\ cli[i].priority = "high"

\* A step of the poller: one pass of its loop, after which it sleeps anew.
PollerPass == pollAt' # pollAt

\* C16: a pass of the poller promotes every overdue entry: when it is over,
\* the heap holds no entry whose ScheduleTime is at or before the time of the
\* pass, however many there were.
C16_PassDrainsOverdue ==
    [][PollerPass => \A i \in 1..Len(heap') : heap'[i].ScheduleTime > now]_vars

\* C16 for the entries whose ScheduleTime lies strictly before the pass.
C16_PassDrainsStrictlyOverdue ==
    [][PollerPass => \A i \in 1..Len(heap') : heap'[i].ScheduleTime >= now]_vars

\* C16 for a heap of one entry strictly overdue: the pass empties it.
C16_PassPromotesOne ==
    [][(PollerPass /\ Len(heap) = 1 /\ heap[1].ScheduleTime < now) => heap' = << >>]_vars

\* C17: no task ever holds Scheduler.mu and JobQueue.mu at the same time.
C17_NeverBothLocks ==
    \A t \in LockTasks : ~(mu = t /\ lk.smu = t)

\* Only the poller holds both mutexes, and it holds Scheduler.mu for the
\* whole of the AddJob call it makes.
OnlyPollerHoldsBoth ==
    /\ \A t \in LockTasks : (mu = t /\ lk.smu = t) => t = PollerTask
    /\ lk.pc[PollerTask] \in {"lockQ", "append"} => lk.smu = PollerTask

\* No task takes Scheduler.mu while it holds JobQueue.mu.
HeapLockTakenFirst ==
    \A t \in LockTasks : (lk.smu # t /\ lk'.smu = t) => mu # t

\* C17 as amended: the two mutexes are held together by the poller only,
\* which takes Scheduler.mu first and JobQueue.mu inside it for the AddJob of
\* the entry it popped; every other task holds one of them at most, and no
\* task takes Scheduler.mu while holding JobQueue.mu.
C17_OnlyPollerNestsHeapLockFirst ==
    []OnlyPollerHoldsBoth /\ [][HeapLockTakenFirst]_vars

\* The poller holds both mutexes while a producer waits in Scheduler and a
\* worker in GetJob.
C17_Witness ==
    /\ mu = PollerTask
    /\ lk.smu = PollerTask
    /\ lk.pc[SchedulerCaller] = "lockS"
    /\ lk.pc[GetJobCaller] = "lockQ"

\* Every copy of a job there is: in the heap, in the pending and dead-letter
\* lanes, with a worker, with a retry goroutine.
Copies ==
    {heap[i].Job : i \in 1..Len(heap)}
    \cup UNION {{queue[p][i] : i \in 1..Len(queue[p])} : p \in Priorities}
    \cup UNION {{deadLetterQueue[p][i] : i \in 1..Len(deadLetterQueue[p])} : p \in Priorities}
    \cup {wj[w] : w \in {v \in Workers : wpc[v] \in {"handle", "dead"}}}
    \cup {t.job : t \in timers}

\* The RetryCount of the job of this ID, or -1 when the job is nowhere.
RetryCountOf(id) ==
    IF \E c \in Copies : c.ID = id THEN (CHOOSE c \in Copies : c.ID = id).RetryCount ELSE -1

\* In every state: a copy differs from the job as created in RetryCount only;
\* pending or waiting for a retry it has RetryCount <= MaxRetries, in a
\* dead-letter lane RetryCount = MaxRetries + 1.
RetryCountInBounds ==
    /\ \A c \in Copies : \E job \in used : c = [job EXCEPT !.RetryCount = c.RetryCount]
    /\ \A p \in Priorities : \A i \in 1..Len(queue[p]) :
           queue[p][i].RetryCount >= 0 /\ queue[p][i].RetryCount <= queue[p][i].MaxRetries
    /\ \A t \in timers : t.job.RetryCount >= 1 /\ t.job.RetryCount <= t.job.MaxRetries
    /\ \A p \in Priorities : \A i \in 1..Len(deadLetterQueue[p]) :
           deadLetterQueue[p][i].RetryCount = deadLetterQueue[p][i].MaxRetries + 1

\* In every step: RetryCount changes by +1 and only when a worker's handleJob
\* call on the job returns an error.
RetryCountStepsByOne ==
    \A id \in SysIDs :
        (RetryCountOf(id) # -1 /\ RetryCountOf(id)' # -1 /\ RetryCountOf(id)' # RetryCountOf(id)) =>
            /\ RetryCountOf(id)' = RetryCountOf(id) + 1
            /\ \E w \in Workers :
                  /\ wpc[w] = "handle" /\ wpc'[w] # "handle"
                  /\ wj[w].ID = id
                  /\ handleJob(wj[w])

\* C18: RetryCount changes only in the worker's failure path, by exactly +1
\* per failed attempt; for jobs created with RetryCount = 0, every job in a
\* pending lane or waiting on a retry timer has RetryCount <= MaxRetries and
\* every job a worker put in a dead-letter lane has RetryCount = MaxRetries + 1,
\* with Priority, MaxRetries and ID as created.
C18_RetryCountDiscipline ==
    []RetryCountInBounds /\ [][RetryCountStepsByOne]_vars

\* A job created with MaxRetries = 1 has been handled twice and is
\* dead-lettered with RetryCount = 2.
C18_Witness ==
    /\ \E p \in Priorities : \E i \in 1..Len(deadLetterQueue[p]) : deadLetterQueue[p][i].RetryCount = 2
    /\ \E job \in used : job.MaxRetries = 1 /\ handled[job.ID] = 2

\* How often a job of this ID occurs in the lanes q.
LaneCount(q, id) ==
    Cardinality({<<p, i>> \in Priorities \X (1..MaxJobs) : i <= Len(q[p]) /\ q[p][i].ID = id})

\* The number of places the job is in: heap entries, pending lane entries,
\* workers it is in flight at, retry goroutines, dead-letter lane entries,
\* and one more when its handler has succeeded.
PlaceCount(job) ==
    InHeapCount(job.ID)
    + LaneCount(queue, job.ID)
    + Cardinality({w \in Workers : wpc[w] \in {"handle", "dead"} /\ wj[w].ID = job.ID})
    + Cardinality({t \in timers : t.job.ID = job.ID})
    + LaneCount(deadLetterQueue, job.ID)
    + (IF Succeeded(job) THEN 1 ELSE 0)

\* C19: with distinct IDs and priorities High, Medium, Low, every job passed
\* in is in exactly one place in every state: the heap, one pending lane once,
\* in flight at one worker, one retry goroutine, one dead-letter lane once, or
\* finished with success; never in two places and never in none.
C19_ExactlyOnePlace ==
    \A job \in used : PlaceCount(job) = 1

\* C19 for the jobs whose ID is not "".
C19_ExactlyOnePlaceWithID ==
    \A job \in used : job.ID # "" => PlaceCount(job) = 1

\* Two jobs passed in, one in flight at a worker and one waiting for its retry.
C19_WitnessWithID ==
    /\ Cardinality(used) = 2
    /\ \E w \in Workers : wpc[w] = "handle" /\ wj[w].ID = "b"
    /\ \E t \in timers : t.job.ID = "a"

\* The job has reached its end: its handler succeeded or it is dead-lettered.
Terminal(job) == Succeeded(job) \/ DeadLettered(job.ID)

\* No job that nothing more can happen to is short of its end.
NoJobDropped ==
    \A job \in used : Settled(job.ID) => Terminal(job)

\* C20: with finitely many jobs passed in, a handler that returns, and
\* workers, retry goroutines and poller that keep running, every job passed in
\* eventually has its handler succeed or is in a dead-letter lane; no job is
\* dropped short of that.
C20_EveryJobTerminates ==
    /\ []NoJobDropped
    /\ \A id \in SysIDs :
          (\E job \in used : job.ID = id) ~> (\E job \in used : job.ID = id /\ Terminal(job))

\* C20 for the jobs whose ID is not "".
C20_EveryJobWithIDTerminates ==
    /\ [](\A job \in used : (job.ID # "" /\ Settled(job.ID)) => Terminal(job))
    /\ \A id \in SysIDs \ {""} :
          (\E job \in used : job.ID = id) ~> (\E job \in used : job.ID = id /\ Terminal(job))

\* A step in which worker w's GetJob returns a job and no error.
DequeuesJob(w) == Dequeues(w) /\ wpc'[w] # "sleepNoJob"

\* The step hands the job GetJob returned to handleJob, once.
HandsToHandler(w) ==
    /\ wpc'[w] = "handle"
    /\ handled' = [handled EXCEPT ![wj'[w].ID] = @ + 1]

\* C24: every job a worker's GetJob returns is handed to handleJob once
\* before that worker calls GetJob again, whatever the job's ID and other
\* fields; no job taken from the store goes without a handler call.
C24_EveryDequeuedJobHandled ==
    [][\A w \in Workers : DequeuesJob(w) => HandsToHandler(w)]_vars

\* C24 for the jobs whose ID is not "": what holds of the code.
C24_DequeuedJobWithIDHandled ==
    [][\A w \in Workers : (DequeuesJob(w) /\ wj'[w].ID # "") => HandsToHandler(w)]_vars

\* Dead-letter lanes only grow, at the tail.
DeadLetterLanesGrow ==
    \A p \in Priorities : IsPrefix(deadLetterQueue[p], deadLetterQueue'[p])

\* A job that is dead-lettered is in no pending lane, with no worker and on
\* no retry goroutine after the step.
DeadLetteredStaysOut ==
    \A id \in SysIDs :
        DeadLettered(id) => (~Pending(id) /\ ~InFlight(id) /\ ~InRetry(id) /\ ~InHeap(id))'

\* C23: no step of a worker, a retry goroutine or the poller takes a job out
\* of a dead-letter lane or puts a dead-lettered job back into a pending lane:
\* every dead-letter lane keeps its entries, in place, and a dead-lettered job
\* is never pending, in flight or waiting for a retry again.
C23_DeadLetterIsTerminal ==
    [][DeadLetterLanesGrow /\ DeadLetteredStaysOut]_vars

\* Two jobs dead-lettered one after the other into the same lane.
C23_Witness ==
    \E p \in Priorities :
        /\ Len(deadLetterQueue[p]) = 2
        /\ deadLetterQueue[p][1].ID # deadLetterQueue[p][2].ID

\* The store's API alone: a call other than GetDeadLetterJob leaves every
\* dead-letter lane a prefix of what it is after the call.
C23_OnlyGetDeadLetterJobShrinks ==
    last.op \notin {"NewQueue", "GetDeadLetterJob"} =>
        \A p \in Priorities : IsPrefix(last.d[p], deadLetterQueue[p])

\* A GetJob that returned "no job found" puts the worker to sleep for one
\* second, and the worker calls GetJob again only when the second is over.
SleepsOnEmpty ==
    \A w \in Workers :
        /\ (Dequeues(w) /\ wpc'[w] = "sleepNoJob") => wwake'[w] = now + Second
        /\ wpc[w] = "sleepNoJob" =>
               \/ wpc'[w] = "sleepNoJob" /\ wwake'[w] = wwake[w]
               \/ wpc'[w] = "get" /\ wwake[w] <= now

\* C27: after every GetJob that returns "no job found" the worker sleeps one
\* second before its next GetJob, and it goes on calling GetJob: a job that
\* is pending, enqueued while the workers sleep, is taken by a later GetJob.
C27_SleepsOnEmptyAndRetries ==
    /\ [][SleepsOnEmpty]_vars
    /\ \A id \in SysIDs : Pending(id) ~> ~Pending(id)

\* The only job passed in, enqueued by AddJob while worker w slept on the
\* "no job found" of its GetJob at time 0, taken by w's GetJob at one second.
C27_Witness ==
    \E w \in Workers :
        /\ used = {Job("b", Low, 0, 0, OkAddr)}
        /\ sched["b"].at = -1
        /\ wpc[w] = "handle"
        /\ wj[w].ID = "b"
        /\ wwake[w] = Second + HandleTime
        /\ handled["b"] = 1

\* The position of the first entry of jobs with the ID.
FirstWithID(jobs, id) ==
    CHOOSE i \in 1..Len(jobs) :
        jobs[i].ID = id /\ \A k \in 1..(i - 1) : jobs[k].ID # id

\* C25: RemoveJobFromQueue(job) on a lane that holds one or more entries with
\* job's ID takes out exactly the first of them: the lane is one entry
\* shorter, the later entries with the same ID stay, the entries left keep
\* their order, and the other lanes are as they were.
C25_RemoveTakesFirstMatch ==
    (last.op = "RemoveJobFromQueue" /\ HasID(last.q[last.job.Priority], last.job.ID)) =>
        LET p == last.job.Priority
            was == last.q[p]
        IN  /\ queue[p] = Without(was, FirstWithID(was, last.job.ID))
            /\ Len(queue[p]) = Len(was) - 1
            /\ CountID(queue[p], last.job.ID) = CountID(was, last.job.ID) - 1
            /\ \A r \in Priorities \ {p} : queue[r] = last.q[r]
            /\ deadLetterQueue = last.d

\* A removal from a lane that held the ID twice, as two entries that differ,
\* with another job between them: the second entry with the ID is left.
C25_Witness ==
    /\ last.op = "RemoveJobFromQueue"
    /\ LET was == last.q[last.job.Priority]
       IN  /\ Len(was) = 3
           /\ was[1].ID = last.job.ID
           /\ was[2].ID # last.job.ID
           /\ was[3].ID = last.job.ID
           /\ was[1] # was[3]

\* The poller's last pass took an entry out of the heap.
Promoted == hp.op = "poller" /\ hp.entry # NoEntry

\* C26: whenever the poller promotes an entry, no entry left in the heap has
\* an earlier ScheduleTime, after any sequence of Scheduler calls with any
\* delays and poller passes in between; the entry promoted is enqueued.
C26_PromotesEarliestFirst ==
    Promoted =>
        /\ \A i \in 1..Len(heap) : ~(heap[i].ScheduleTime < hp.entry.ScheduleTime)
        /\ Len(heap) = Len(hp.before) - 1
        /\ queue[High] # << >>
        /\ queue[High][Len(queue[High])] = hp.entry.Job

\* The poller promotes the entry pushed third out of a heap of three entries
\* of three different times: the two pushed before it are due later.
C26_Witness ==
    /\ Promoted
    /\ Len(hp.before) = 3
    /\ hp.entry.Job.ID = NewID(3)
    /\ \A i \in 1..Len(heap) : heap[i].ScheduleTime > hp.entry.ScheduleTime
    /\ heap[1].ScheduleTime # heap[2].ScheduleTime

\* The earliest ScheduleTime in the heap h.
MinScheduleTime(h) ==
    CHOOSE t \in {h[i].ScheduleTime : i \in 1..Len(h)} :
        \A i \in 1..Len(h) : t <= h[i].ScheduleTime

\* C28: a poller pass that runs at a time equal to the earliest ScheduleTime
\* in the heap promotes an entry of that time in that pass (an entry is due
\* when its ScheduleTime is at or before the current time).
C28_DueAtFireTime ==
    (hp.op = "poller" /\ hp.before # << >> /\ MinScheduleTime(hp.before) = hp.at) =>
        /\ Promoted
        /\ hp.entry.ScheduleTime = hp.at

\* What the poller does: a pass promotes the root exactly when the time of
\* the pass is after the earliest ScheduleTime.
C28_DueAfterFireTime ==
    (hp.op = "poller" /\ hp.before # << >>) =>
        (Promoted <=> hp.at > MinScheduleTime(hp.before))

\* C29: after every heap operation (Push, Pop and the Swaps inside them) the
\* index of each entry is the entry's position in the heap.
C29_IndexIsPosition ==
    \A i \in 1..Len(heap) : heap[i].index = i - 1

\* The order the heap keeps all the same: no entry is earlier than its parent.
C29_HeapOrdered ==
    \A i \in 2..Len(heap) : ~(heap[i].ScheduleTime < heap[i \div 2].ScheduleTime)

\* The task stands at s.mu.Lock(): the poller when its sleep is over, the
\* producer inside Scheduler.
WaitsForHeapLock(t) ==
    \/ t = PollerTask /\ lk.pc[t] = "idle" /\ pollAt <= now
    \/ t = SchedulerCaller /\ lk.pc[t] = "lockS"

\* The task stands at q.mu.Lock(): inside AddJob, GetJob or MoveJobToDeadLetterQueue.
WaitsForStoreLock(t) ==
    \/ t # SchedulerCaller /\ lk.pc[t] = "lockQ"
    \/ t \in LockWorkers /\ lk.pc[t] = "lockD"

\* Task t waits for a mutex that task u holds.
WaitsOn(t, u) ==
    \/ WaitsForHeapLock(t) /\ lk.smu = u
    \/ WaitsForStoreLock(t) /\ mu = u

\* No task waits for a mutex it holds itself, and no two tasks wait for each
\* other's mutex (with two mutexes a cycle has no more than two tasks).
NoWaitCycle ==
    \A t, u \in LockTasks : ~(WaitsOn(t, u) /\ WaitsOn(u, t))

\* A mutex that is held is held by a task inside its critical section, whose
\* next step needs no other task.
HolderRuns ==
    /\ mu # Free => lk.pc[mu] \in {"append", "pop", "move"}
    /\ lk.smu # Free =>
           \/ lk.smu = SchedulerCaller /\ lk.pc[SchedulerCaller] = "push"
           \/ lk.smu = PollerTask /\ lk.pc[PollerTask] \in {"test", "lockQ", "append", "unlockS"}

\* C21: the system never deadlocks: in every interleaving of the producers,
\* the poller, the workers and the retry goroutines there is no cycle of
\* tasks each waiting for a mutex the other holds, and every task that waits
\* for Scheduler.mu or JobQueue.mu gets it in the end.
C21_NoDeadlock ==
    /\ []NoWaitCycle
    /\ []HolderRuns
    /\ \A t \in {PollerTask, SchedulerCaller} : WaitsForHeapLock(t) ~> (lk.smu = t)
    /\ \A t \in LockTasks \ {SchedulerCaller} : WaitsForStoreLock(t) ~> (mu = t)

\* The poller holds Scheduler.mu and waits for JobQueue.mu, which a worker
\* holds inside GetJob, while the producer waits for Scheduler.mu and the
\* other worker for JobQueue.mu.
C21_Witness ==
    /\ lk.smu = PollerTask
    /\ lk.pc[PollerTask] = "lockQ"
    /\ mu = GetJobCaller
    /\ lk.pc[SchedulerCaller] = "lockS"
    /\ lk.pc[SecondWorker] = "lockQ"

\* A worker holds JobQueue.mu inside GetJob and MoveJobToDeadLetterQueue
\* only, a producer or a retry goroutine inside AddJob only.
StoreLockInsideCallOnly ==
    \A t \in LockTasks :
        /\ mu = t => lk.pc[t] \in {"append", "pop", "move"}
        /\ lk.pc[t] \in {"append", "pop", "move"} => (mu = t \/ t = SchedulerCaller)

\* C22: JobQueue.mu is held for the length of one store call only: no worker
\* holds it while handleJob runs or while it sleeps on "no job found", and
\* none is held for a retry goroutine that sleeps, so the other worker and
\* the producers can take it during a handler call.
C22_StoreLockHeldPerCall ==
    /\ StoreLockInsideCallOnly
    /\ \A w \in LockWorkers : lk.pc[w] \in {"handle", "sleep"} => mu # w
    /\ (lk.asleep # {} /\ lk.pc[RetryCaller] = "idle") => mu # RetryCaller

\* One worker is inside handleJob, a retry goroutine sleeps, and the other
\* worker holds JobQueue.mu inside its GetJob.
C22_Witness ==
    /\ lk.pc[GetJobCaller] = "handle"
    /\ lk.asleep # {}
    /\ mu = SecondWorker
    /\ lk.pc[SecondWorker] = "pop"

\* C4: after NumGoroutines goroutines have each enqueued JobsPerGoroutine jobs
\* of distinct IDs, in any interleaving, the three pending lanes hold
\* NumGoroutines * JobsPerGoroutine jobs in total and each job exactly once
\* (in the lane of its priority); after the same goroutines have removed them
\* all concurrently, every pending lane is empty.
C4_ConcurrentAddRemove ==
    /\ AddersDone =>
           /\ SumLen(queue, Priorities) = NumGoroutines * JobsPerGoroutine
           /\ \A job \in ConcJobs :
                  /\ CountID(queue[job.Priority], job.ID) = 1
                  /\ \A r \in Priorities \ {job.Priority} : CountID(queue[r], job.ID) = 0
    /\ (RemoversDone \/ cphase = "done") => \A p \in Priorities : queue[p] = << >>

\* The adds interleaved: all jobs enqueued, and in the High lane a job of
\* goroutine 2 ahead of a job of goroutine 1.
C4_Witness ==
    /\ AddersDone
    /\ Len(queue[High]) >= 2
    /\ queue[High][1] \in {ConcJob(2, j) : j \in 1..JobsPerGoroutine}
    /\ queue[High][2] \in {ConcJob(1, j) : j \in 1..JobsPerGoroutine}

\* The removes done, every lane empty.
C4_WitnessRemoved == cphase = "done" /\ \A p \in Priorities : queue[p] = << >>

\* C5: MoveJobToDeadLetterQueue(job) leaves the dead-letter lane of
\* job.Priority as it was plus job at the tail (also when job was not
\* pending), removes the first pending entry with job's ID when there is one
\* (the pending lane shrinks by 1 at most), and leaves every lane of the other
\* priorities unchanged.
C5_MoveToDeadLetter ==
    last.op = "MoveJobToDeadLetterQueue" =>
        LET job == last.job
            p == job.Priority
        IN  /\ deadLetterQueue[p] = Append(last.d[p], job)
            /\ Len(last.q[p]) - Len(queue[p]) \in {0, 1}
            /\ IF HasID(last.q[p], job.ID)
               THEN \E i \in 1..Len(last.q[p]) :
                        /\ last.q[p][i].ID = job.ID
                        /\ queue[p] = Without(last.q[p], i)
               ELSE queue[p] = last.q[p]
            /\ \A r \in Priorities \ {p} :
                   queue[r] = last.q[r] /\ deadLetterQueue[r] = last.d[r]

\* A move of a job that was not pending, onto a non-empty dead-letter lane,
\* with another job pending in the same lane.
C5_Witness ==
    /\ last.op = "MoveJobToDeadLetterQueue"
    /\ ~HasID(last.q[last.job.Priority], last.job.ID)
    /\ Len(last.q[last.job.Priority]) > 0
    /\ Len(last.d[last.job.Priority]) > 0

\* C6: RemoveJobFromQueue(job) with no entry of job's ID in the pending lane
\* of job.Priority leaves all six lanes as they were and returns no error.
C6_RemoveAbsentIsNoOp ==
    (last.op = "RemoveJobFromQueue" /\ ~HasID(last.q[last.job.Priority], last.job.ID)) =>
        /\ queue = last.q
        /\ deadLetterQueue = last.d
        /\ ~last.err

\* A removal of an absent job from a lane that holds another job, with jobs
\* in another pending lane and in a dead-letter lane.
C6_Witness ==
    /\ last.op = "RemoveJobFromQueue"
    /\ ~HasID(last.q[last.job.Priority], last.job.ID)
    /\ Len(last.q[last.job.Priority]) > 0
    /\ \E r \in Priorities \ {last.job.Priority} : Len(last.q[r]) > 0
    /\ \E r \in Priorities : Len(last.d[r]) > 0

\* C7: GetJob returns "no job found" exactly when the three pending lanes are
\* empty, GetDeadLetterJob exactly when the three dead-letter lanes are, and a
\* call that returns it leaves all six lanes unchanged.
C7_EmptyExactlyWhenNoJob ==
    /\ last.op = "GetJob" =>
           /\ last.err <=> \A p \in Priorities : last.q[p] = << >>
           /\ last.err => queue = last.q /\ deadLetterQueue = last.d /\ last.ret = NoJob
    /\ last.op = "GetDeadLetterJob" =>
           /\ last.err <=> \A p \in Priorities : last.d[p] = << >>
           /\ last.err => queue = last.q /\ deadLetterQueue = last.d /\ last.ret = NoJob

\* "no job found" from GetDeadLetterJob while jobs are pending.
C7_Witness ==
    /\ last.op = "GetDeadLetterJob"
    /\ last.err
    /\ Len(last.q[Low]) > 0

\* C8: AddJob(job), for a job of priority High, Medium or Low and any ID
\* (one already in the lane included), leaves the pending lane of job.Priority
\* as it was plus job at the tail; that lane is the only lane that changed.
C8_EnqueueAppends ==
    last.op = "AddJob" =>
        LET job == last.job
            p == job.Priority
        IN  /\ queue[p] = Append(last.q[p], job)
            /\ queue[p][Len(queue[p])] = job
            /\ Cardinality({r \in Priorities : Len(queue[r]) = Len(last.q[r]) + 1}) = 1
            /\ \A r \in Priorities \ {p} : queue[r] = last.q[r]
            /\ deadLetterQueue = last.d
            /\ ~last.err

\* An enqueue of a Medium job whose ID is already in the Medium lane.
C8_Witness ==
    /\ last.op = "AddJob"
    /\ last.job.Priority = Medium
    /\ HasID(last.q[Medium], last.job.ID)

\* C9: MoveJobToDeadLetterQueue calls in any order, then GetDeadLetterJob until
\* "no job found": every job returned so far is the next one of the
\* priority-then-FIFO order of the jobs dead-lettered (so each call returned
\* the head of the highest-priority non-empty dead-letter lane), and at
\* "no job found" all of them have been returned.
C9_DeadLetterPriorityThenFIFO ==
    mode = "dead" =>
        /\ IsPrefix(out, PriorityOrder(log))
        /\ phase = "done" => out = PriorityOrder(log)

\* A drained run that dead-lettered Low, Medium, High, Medium.
C9_Witness ==
    /\ mode = "dead"
    /\ phase = "done"
    /\ Len(log) = 4
    /\ <<log[1].Priority, log[2].Priority, log[3].Priority, log[4].Priority>>
         = <<Low, Medium, High, Medium>>
    /\ log[2].ID # log[4].ID
    /\ Len(out) = 4

====
